---- MODULE Spec2Model ----
(***************************************************************************)
(* Verification model of the synthetic-data request service:               *)
(*   data_masking.py        parameter masking and the original-params vault *)
(*   plagiarism_checker.py  the similarity audit                            *)
(*   synthetic_generator.py dataset generation and privacy transformations  *)
(*   routers/*.py           the request lifecycle API                       *)
(*                                                                         *)
(* A JSON text is a sequence of lexical tokens (punctuation, string and    *)
(* number literals, whitespace characters); json.loads is a recursive      *)
(* descent parser over it and json.dumps a serialiser into it.  A Python   *)
(* str value is a sequence of one-character strings.                       *)
(***************************************************************************)
EXTENDS Integers, Sequences, FiniteSets, TLC

VARIABLES
    maskIn,      \* generate_synthetic_params: the params_json argument
    maskOut,     \* generate_synthetic_params: the returned value
    maskPc,      \* "call" before the call, "done" after it returned
    os_linesep,  \* os.linesep of the platform: what "\n" is written as in text mode
    vault,       \* storage/requests/{id}/original_params.json: file content, None if no file
    vaultPuts,   \* history: per id, the argument of the latest save_original_params call
    vaultOp,     \* history: the latest vault call, its argument, result and effect
    auditA,      \* generate_plagiarism_report: the original_json argument
    auditB,      \* generate_plagiarism_report: the synthetic_json argument
    auditOut,    \* generate_plagiarism_report: the returned report
    auditPc,     \* "call" before the call, "done" after it returned
    simA,        \* _value_similarity: the argument a
    simB,        \* _value_similarity: the argument b
    simOut,      \* _value_similarity: the returned score
    simPc,       \* "call" before the call, "done" after it returned
    genArgs,     \* generate_dataset: data_type, size, privacy_level, request_id
    genFrame,    \* generate_dataset: df as the _generate_* method returned it
    genDf,       \* generate_dataset: df after _apply_privacy_transformations
    genFile,     \* storage/requests/{id}/data.csv: the frame written, NoFile if none
    genPc,       \* generate_dataset: "start", "generated", "transformed", "saved", "raised"
    requests,    \* the requests table: the row of each id handed out so far
    reports,     \* storage/requests/{id}/plagiarism_report.json, by request id
    datasets,    \* storage/requests/{id}/data.csv, by request id
    last,        \* the last API call: handler, request id, client id, status code
    task         \* the handler coroutine the event loop is running, NoTask if none

maskVars == <<maskIn, maskOut, maskPc>>

vaultVars == <<os_linesep, vault, vaultPuts, vaultOp>>

simVars == <<simA, simB, simOut, simPc>>

auditVars == <<auditA, auditB, auditOut, auditPc, simVars>>

genVars == <<genArgs, genFrame, genDf, genFile, genPc>>

vars == <<maskIn, maskOut, maskPc, os_linesep, vault, vaultPuts, vaultOp,
          auditA, auditB, auditOut, auditPc, simA, simB, simOut, simPc,
          genArgs, genFrame, genDf, genFile, genPc,
          requests, reports, datasets, last, task>>

apiVars == <<requests, reports, datasets, last, task>>

-----------------------------------------------------------------------------
(* Python values produced by json.loads.  Every value is a record of the   *)
(* same four fields: t the type tag, s the characters of a str, n the      *)
(* number of an int (and 0/1 of a bool), items the elements of a list or   *)
(* the (key, value) pairs of a dict in insertion order.                    *)

JNull == [t |-> "null", s |-> <<>>, n |-> 0, items |-> <<>>]

JBool(b) == [t |-> "bool", s |-> <<>>, n |-> IF b THEN 1 ELSE 0, items |-> <<>>]

JNum(x) == [t |-> "num", s |-> <<>>, n |-> x, items |-> <<>>]

JStr(chars) == [t |-> "str", s |-> chars, n |-> 0, items |-> <<>>]

JList(elems) == [t |-> "list", s |-> <<>>, n |-> 0, items |-> elems]

JDict(pairs) == [t |-> "dict", s |-> <<>>, n |-> 0, items |-> pairs]

Pair(k, v) == [key |-> k, val |-> v]

IsStr(x) == x.t = "str"

IsNumber(x) == x.t \in {"num", "bool"}

IsList(x) == x.t = "list"

IsDict(x) == x.t = "dict"

DictKeys(d) == {d.items[i].key : i \in 1..Len(d.items)}

DictHas(d, k) == k \in DictKeys(d)

DictIndex(d, k) == CHOOSE i \in 1..Len(d.items) : d.items[i].key = k

DictGet(d, k) == IF DictHas(d, k) THEN d.items[DictIndex(d, k)].val ELSE JNull

PairsSet(pairs, k, v) ==
    IF \E i \in 1..Len(pairs) : pairs[i].key = k
    THEN [i \in 1..Len(pairs) |-> IF pairs[i].key = k THEN Pair(k, v) ELSE pairs[i]]
    ELSE Append(pairs, Pair(k, v))

-----------------------------------------------------------------------------
(* Texts.  None is the absent text, Text(<<>>) the empty string.           *)

Tok(kind) == [k |-> kind, s |-> <<>>, n |-> 0]

StrTok(chars) == [k |-> "str", s |-> chars, n |-> 0]

NumTok(x) == [k |-> "num", s |-> <<>>, n |-> x]

SP == Tok("sp")

LF == Tok("lf")

CR == Tok("cr")

WsKinds == {"sp", "lf", "cr"}

None == [some |-> FALSE, toks |-> <<>>]

Text(toks) == [some |-> TRUE, toks |-> toks]

\* "text is not None" in place of the truth test.
IsNotNone(text) == text.some

\* A text's truth value: False for None and for the empty string.
Truthy(text) == text.some /\ Len(text.toks) > 0

-----------------------------------------------------------------------------
(* json.loads *)

ParseFail == [ok |-> FALSE, val |-> JNull, pos |-> 0]

ParseOk(v, p) == [ok |-> TRUE, val |-> v, pos |-> p]

RECURSIVE SkipWs(_, _)
SkipWs(toks, i) ==
    IF i <= Len(toks) /\ toks[i].k \in WsKinds THEN SkipWs(toks, i + 1) ELSE i

KindAt(toks, i) == IF i <= Len(toks) THEN toks[i].k ELSE "eof"

RECURSIVE ParseValue(_, _)
RECURSIVE ParseElems(_, _, _)
RECURSIVE ParseMembers(_, _, _)

ParseValue(toks, i) ==
    LET kind == KindAt(toks, i) IN
    CASE kind = "str" -> ParseOk(JStr(toks[i].s), i + 1)
      [] kind = "num" -> ParseOk(JNum(toks[i].n), i + 1)
      [] kind = "true" -> ParseOk(JBool(TRUE), i + 1)
      [] kind = "false" -> ParseOk(JBool(FALSE), i + 1)
      [] kind = "null" -> ParseOk(JNull, i + 1)
      [] kind = "[" ->
            LET j == SkipWs(toks, i + 1) IN
            IF KindAt(toks, j) = "]" THEN ParseOk(JList(<<>>), j + 1)
            ELSE ParseElems(toks, j, <<>>)
      [] kind = "{" ->
            LET j == SkipWs(toks, i + 1) IN
            IF KindAt(toks, j) = "}" THEN ParseOk(JDict(<<>>), j + 1)
            ELSE ParseMembers(toks, j, <<>>)
      [] OTHER -> ParseFail

ParseElems(toks, i, acc) ==
    LET r == ParseValue(toks, i) IN
    IF ~r.ok THEN ParseFail
    ELSE LET j == SkipWs(toks, r.pos)
             elems == Append(acc, r.val) IN
         CASE KindAt(toks, j) = "]" -> ParseOk(JList(elems), j + 1)
           [] KindAt(toks, j) = "," -> ParseElems(toks, SkipWs(toks, j + 1), elems)
           [] OTHER -> ParseFail

ParseMembers(toks, i, acc) ==
    IF KindAt(toks, i) # "str" THEN ParseFail
    ELSE LET j == SkipWs(toks, i + 1) IN
         IF KindAt(toks, j) # ":" THEN ParseFail
         ELSE LET r == ParseValue(toks, SkipWs(toks, j + 1)) IN
              IF ~r.ok THEN ParseFail
              ELSE LET m == SkipWs(toks, r.pos)
                       pairs == PairsSet(acc, toks[i].s, r.val) IN
                   CASE KindAt(toks, m) = "}" -> ParseOk(JDict(pairs), m + 1)
                     [] KindAt(toks, m) = "," ->
                            ParseMembers(toks, SkipWs(toks, m + 1), pairs)
                     [] OTHER -> ParseFail

\* json.loads(text): ok is FALSE where the code gets a JSONDecodeError.
Loads(toks) ==
    LET r == ParseValue(toks, SkipWs(toks, 1)) IN
    IF r.ok /\ SkipWs(toks, r.pos) = Len(toks) + 1 THEN r ELSE ParseFail

-----------------------------------------------------------------------------
(* json.dumps with the default separators ", " and ": " *)

RECURSIVE Dumps(_)
RECURSIVE DumpElems(_, _)
RECURSIVE DumpPairs(_, _)

Dumps(x) ==
    CASE x.t = "null" -> <<Tok("null")>>
      [] x.t = "bool" -> <<Tok(IF x.n = 1 THEN "true" ELSE "false")>>
      [] x.t = "num" -> <<NumTok(x.n)>>
      [] x.t = "str" -> <<StrTok(x.s)>>
      [] x.t = "list" -> <<Tok("[")>> \o DumpElems(x.items, 1) \o <<Tok("]")>>
      [] x.t = "dict" -> <<Tok("{")>> \o DumpPairs(x.items, 1) \o <<Tok("}")>>

DumpElems(elems, i) ==
    IF i > Len(elems) THEN <<>>
    ELSE (IF i > 1 THEN <<Tok(","), SP>> ELSE <<>>)
         \o Dumps(elems[i]) \o DumpElems(elems, i + 1)

DumpPairs(pairs, i) ==
    IF i > Len(pairs) THEN <<>>
    ELSE (IF i > 1 THEN <<Tok(","), SP>> ELSE <<>>)
         \o <<StrTok(pairs[i].key), Tok(":"), SP>> \o Dumps(pairs[i].val)
         \o DumpPairs(pairs, i + 1)

-----------------------------------------------------------------------------
(* str.lower(), character by character *)

ToLower ==
    [c \in {"A", "B", "C", "D", "E", "F", "G", "H", "I", "J", "K", "L", "M",
            "N", "O", "P", "Q", "R", "S", "T", "U", "V", "W", "X", "Y", "Z"} |->
        CASE c = "A" -> "a" [] c = "B" -> "b" [] c = "C" -> "c" [] c = "D" -> "d"
          [] c = "E" -> "e" [] c = "F" -> "f" [] c = "G" -> "g" [] c = "H" -> "h"
          [] c = "I" -> "i" [] c = "J" -> "j" [] c = "K" -> "k" [] c = "L" -> "l"
          [] c = "M" -> "m" [] c = "N" -> "n" [] c = "O" -> "o" [] c = "P" -> "p"
          [] c = "Q" -> "q" [] c = "R" -> "r" [] c = "S" -> "s" [] c = "T" -> "t"
          [] c = "U" -> "u" [] c = "V" -> "v" [] c = "W" -> "w" [] c = "X" -> "x"
          [] c = "Y" -> "y" [] c = "Z" -> "z"]

Lower(chars) ==
    [i \in 1..Len(chars) |->
        IF chars[i] \in DOMAIN ToLower THEN ToLower[chars[i]] ELSE chars[i]]

sName == <<"n", "a", "m", "e">>
sNameCap == <<"N", "a", "m", "e">>
sCountry == <<"c", "o", "u", "n", "t", "r", "y">>
sNote == <<"n", "o", "t", "e">>
sAb == <<"a", "b">>
sCd == <<"c", "d">>

-----------------------------------------------------------------------------
(* data_masking.py *)

\* Values Faker.name() and Faker.word() can return.  Nothing keeps two calls
\* from returning the same value, or a word from equalling the replaced text.
FakeNames == {<<"A", "n", "n", " ", "L", "e", "e">>, <<"B", "o", " ", "O", "t", "t">>}

FakeWords == {sAb, <<"s", "i", "t">>}

country_pool ==
    { <<"U", "S", "A">>, <<"I", "n", "d", "i", "a">>, <<"B", "r", "a", "z", "i", "l">>,
      <<"M", "e", "x", "i", "c", "o">>, <<"C", "a", "n", "a", "d", "a">>,
      <<"G", "e", "r", "m", "a", "n", "y">>, <<"F", "r", "a", "n", "c", "e">>,
      <<"S", "p", "a", "i", "n">>, <<"I", "t", "a", "l", "y">>,
      <<"A", "u", "s", "t", "r", "a", "l", "i", "a">>, <<"J", "a", "p", "a", "n">>,
      <<"S", "o", "u", "t", "h", " ", "K", "o", "r", "e", "a">>, <<"U", "K">>,
      <<"N", "e", "t", "h", "e", "r", "l", "a", "n", "d", "s">>,
      <<"S", "w", "e", "d", "e", "n">>, <<"N", "o", "r", "w", "a", "y">>,
      <<"D", "e", "n", "m", "a", "r", "k">>, <<"F", "i", "n", "l", "a", "n", "d">>,
      <<"C", "h", "i", "n", "a">>,
      <<"S", "o", "u", "t", "h", " ", "A", "f", "r", "i", "c", "a">> }

\* All sequences whose i-th element is drawn from sets[i].
RECURSIVE SeqProduct(_)
SeqProduct(sets) ==
    IF Len(sets) = 0 THEN {<<>>}
    ELSE {<<h>> \o t : h \in Head(sets), t \in SeqProduct(Tail(sets))}

\* One generated name whatever the number of names given.
_mask_name_list_single(names) == {JList(<<JStr(w)>>) : w \in FakeNames}

\* The lists [_fake.name() for _ in names] can be.
_mask_name_list(names) ==
    {JList(l) : l \in SeqProduct([i \in 1..Len(names) |-> {JStr(w) : w \in FakeNames}])}

\* The lists [random.choice(country_pool) for _ in countries] can be.
_mask_country_list(countries) ==
    {JList(l) : l \in SeqProduct([i \in 1..Len(countries) |-> {JStr(w) : w \in country_pool}])}

\* The values _mask_generic_value(value) can return.
RECURSIVE _mask_generic_value(_)
_mask_generic_value(value) ==
    CASE IsStr(value) -> {JStr(w) : w \in FakeWords}
      [] IsNumber(value) -> {value}
      [] IsList(value) ->
            {JList(l) : l \in SeqProduct(
                [i \in 1..Len(value.items) |-> _mask_generic_value(value.items[i])])}
      [] IsDict(value) ->
            {JDict([i \in 1..Len(value.items) |-> Pair(value.items[i].key, l[i])]) :
                l \in SeqProduct(
                    [i \in 1..Len(value.items) |-> _mask_generic_value(value.items[i].val)])}
      [] OTHER -> {value}

-----------------------------------------------------------------------------
(* plagiarism_checker.py.  A score is an exact fraction <<numerator,       *)
(* denominator>>; a value rounded to 4 decimals is an integer number of    *)
(* ten-thousandths.                                                        *)

RECURSIVE GCD(_, _)
GCD(a, b) == IF b = 0 THEN a ELSE GCD(b, a % b)

Frac(n, d) == LET g == GCD(n, d) IN IF g = 0 THEN <<0, 1>> ELSE <<n \div g, d \div g>>

One == <<1, 1>>

Zero == <<0, 1>>

FracAdd(x, y) == Frac(x[1] * y[2] + y[1] * x[2], x[2] * y[2])

FracDiv(x, k) == Frac(x[1], x[2] * k)

\* x >= n/d
FracGe(x, n, d) == x[1] * d >= n * x[2]

TenThousand == 10000

\* round(x, 4), in ten-thousandths (ties to even).
Round4(x) ==
    LET q == (x[1] * TenThousand) \div x[2]
        r == (x[1] * TenThousand) % x[2] IN
    IF 2 * r > x[2] \/ (2 * r = x[2] /\ q % 2 = 1) THEN q + 1 ELSE q

Min3(x, y, z) == IF x <= y /\ x <= z THEN x ELSE IF y <= z THEN y ELSE z

Max2(x, y) == IF x >= y THEN x ELSE y

\* Python's a == b on values json.loads produced: True == 1, dicts compare
\* without regard to insertion order.
RECURSIVE PyEq(_, _)
PyEq(a, b) ==
    CASE IsNumber(a) -> IsNumber(b) /\ a.n = b.n
      [] IsStr(a) -> IsStr(b) /\ a.s = b.s
      [] IsList(a) ->
            /\ IsList(b)
            /\ Len(a.items) = Len(b.items)
            /\ \A i \in 1..Len(a.items) : PyEq(a.items[i], b.items[i])
      [] IsDict(a) ->
            /\ IsDict(b)
            /\ DictKeys(a) = DictKeys(b)
            /\ \A k \in DictKeys(a) : PyEq(DictGet(a, k), DictGet(b, k))
      [] OTHER -> a.t = b.t

\* The inner loop reading the diagonal cell dp[j - 1] after it was
\* overwritten with prev.
RECURSIVE LevInner_overwritten(_, _, _, _, _, _)
LevInner_overwritten(a, b, i, j, dp, prev) ==
    IF j > Len(b) THEN [dp EXCEPT ![Len(b)] = prev]
    ELSE LET cost == IF a[i] = b[j] THEN 0 ELSE 1
             cur == Min3(dp[j] + 1, prev + 1, prev + cost) IN
         LevInner_overwritten(a, b, i, j + 1, [dp EXCEPT ![j - 1] = prev], cur)

\* The inner loop of _normalized_levenshtein over j, dp indexed 0..len_b.
RECURSIVE LevInner(_, _, _, _, _, _)
LevInner(a, b, i, j, dp, prev) ==
    IF j > Len(b) THEN [dp EXCEPT ![Len(b)] = prev]
    ELSE LET cost == IF a[i] = b[j] THEN 0 ELSE 1
             cur == Min3(dp[j] + 1, prev + 1, dp[j - 1] + cost) IN
         LevInner(a, b, i, j + 1, [dp EXCEPT ![j - 1] = prev], cur)

RECURSIVE LevOuter(_, _, _, _)
LevOuter(a, b, i, dp) ==
    IF i > Len(a) THEN dp
    ELSE LevOuter(a, b, i + 1, LevInner(a, b, i, 1, dp, i))

\* _normalized_levenshtein dividing by the shorter length.
_normalized_levenshtein_min_len(a, b) ==
    IF a = b THEN One
    ELSE IF Len(a) = 0 \/ Len(b) = 0 THEN Zero
    ELSE LET dp == LevOuter(a, b, 1, [j \in 0..Len(b) |-> j])
             dist == dp[Len(b)]
             min_len == IF Len(a) <= Len(b) THEN Len(a) ELSE Len(b) IN
         Frac(min_len - dist, min_len)

_normalized_levenshtein(a, b) ==
    IF a = b THEN One
    ELSE IF Len(a) = 0 \/ Len(b) = 0 THEN Zero
    ELSE LET dp == LevOuter(a, b, 1, [j \in 0..Len(b) |-> j])
             dist == dp[Len(b)]
             max_len == Max2(Len(a), Len(b)) IN
         Frac(max_len - dist, max_len)

RECURSIVE FracSum(_)
FracSum(scores) ==
    IF Len(scores) = 0 THEN Zero ELSE FracAdd(Head(scores), FracSum(Tail(scores)))

\* _list_similarity averaging over the longer list, unmatched positions
\* counting 0.
_list_similarity_over_longer(list_a, list_b) ==
    IF Len(list_a) = 0 /\ Len(list_b) = 0 THEN One
    ELSE IF Len(list_a) = 0 \/ Len(list_b) = 0 THEN Zero
    ELSE LET length == IF Len(list_a) <= Len(list_b) THEN Len(list_a) ELSE Len(list_b)
             scores == [i \in 1..length |->
                          IF IsStr(list_a[i]) /\ IsStr(list_b[i])
                          THEN _normalized_levenshtein(list_a[i].s, list_b[i].s)
                          ELSE IF PyEq(list_a[i], list_b[i]) THEN One ELSE Zero] IN
         FracDiv(FracSum(scores), Max2(Len(list_a), Len(list_b)))

_list_similarity(list_a, list_b) ==
    IF Len(list_a) = 0 /\ Len(list_b) = 0 THEN One
    ELSE IF Len(list_a) = 0 \/ Len(list_b) = 0 THEN Zero
    ELSE LET length == IF Len(list_a) <= Len(list_b) THEN Len(list_a) ELSE Len(list_b)
             scores == [i \in 1..length |->
                          IF IsStr(list_a[i]) /\ IsStr(list_b[i])
                          THEN _normalized_levenshtein(list_a[i].s, list_b[i].s)
                          ELSE IF PyEq(list_a[i], list_b[i]) THEN One ELSE Zero] IN
         FracDiv(FracSum(scores), Len(scores))

\* The elements of a finite set in some order.
RECURSIVE SetToSeq(_)
SetToSeq(S) ==
    IF S = {} THEN <<>>
    ELSE LET x == CHOOSE y \in S : TRUE IN <<x>> \o SetToSeq(S \ {x})

RECURSIVE _value_similarity(_, _)
_value_similarity(a, b) ==
    IF IsStr(a) /\ IsStr(b) THEN _normalized_levenshtein(a.s, b.s)
    ELSE IF IsList(a) /\ IsList(b) THEN _list_similarity(a.items, b.items)
    ELSE IF IsDict(a) /\ IsDict(b)
    THEN LET keys == SetToSeq(DictKeys(a) \cup DictKeys(b)) IN
         IF Len(keys) = 0 THEN One
         ELSE FracDiv(
                FracSum([i \in 1..Len(keys) |->
                            _value_similarity(DictGet(a, keys[i]), DictGet(b, keys[i]))]),
                Len(keys))
    ELSE IF PyEq(a, b) THEN One ELSE Zero

_risk_from_score(score) ==
    IF FracGe(score, 9, 10) THEN "high"
    ELSE IF FracGe(score, 7, 10) THEN "medium"
    ELSE "low"

Absent == [some |-> FALSE, val |-> 0]

Score(v) == [some |-> TRUE, val |-> v]

\* The report as initialised at plagiarism_checker.py:74-80.
NewReport(original_json, synthetic_json) ==
    [has_original |-> Truthy(original_json),
     has_synthetic |-> Truthy(synthetic_json),
     overall_similarity |-> Absent,
     per_field |-> <<>>,
     risk_level |-> "None"]

\* The report once both texts are parsed (plagiarism_checker.py:93-108).
CompareParsed(report, orig, synth) ==
    IF ~IsDict(orig) \/ ~IsDict(synth)
    THEN LET score == _value_similarity(orig, synth) IN
         [report EXCEPT !.overall_similarity = Score(Round4(score)),
                        !.risk_level = _risk_from_score(score)]
    ELSE LET keys == DictKeys(orig) \cup DictKeys(synth)
             per_field == [k \in keys |->
                 Round4(_value_similarity(DictGet(orig, k), DictGet(synth, k)))]
             ks == SetToSeq(keys)
             overall == IF Len(ks) > 0
                        THEN Frac(FracSum([i \in 1..Len(ks) |-> <<per_field[ks[i]], 1>>])[1],
                                  TenThousand * Len(ks))
                        ELSE Zero IN
         [report EXCEPT !.per_field = per_field,
                        !.overall_similarity = Score(Round4(overall)),
                        !.risk_level = _risk_from_score(overall)]

\* generate_plagiarism_report labelling a parse failure "unknown".
generate_plagiarism_report_unknown_on_error(original_json, synthetic_json) ==
    LET report == NewReport(original_json, synthetic_json) IN
    IF ~Truthy(original_json) \/ ~Truthy(synthetic_json)
    THEN [report EXCEPT !.risk_level = "unknown"]
    ELSE LET o == Loads(original_json.toks)
             y == Loads(synthetic_json.toks) IN
         IF ~o.ok \/ ~y.ok THEN [report EXCEPT !.risk_level = "unknown"]
         ELSE CompareParsed(report, o.val, y.val)

\* The report generate_plagiarism_report(original_json, synthetic_json) returns.
generate_plagiarism_report(original_json, synthetic_json) ==
    LET report == NewReport(original_json, synthetic_json) IN
    IF ~Truthy(original_json) \/ ~Truthy(synthetic_json)
    THEN [report EXCEPT !.risk_level = "unknown"]
    ELSE LET o == Loads(original_json.toks)
             y == Loads(synthetic_json.toks) IN
         IF ~o.ok \/ ~y.ok THEN [report EXCEPT !.risk_level = "invalid_json"]
         ELSE CompareParsed(report, o.val, y.val)

-----------------------------------------------------------------------------
(* synthetic_generator.py.  A data frame is its column names in order, the *)
(* names of its columns of numeric dtype, the noise factor (in hundredths  *)
(* of the column's standard deviation) added to each noised column, the    *)
(* labels each generalized column was recoded to, and its row count.       *)

DataTypes ==
    {"health_records", "financial_data", "sensor_logs", "customer_data", "research_data"}

PrivacyLevels == {"low", "medium", "high", "maximum"}

Frame(cols, num, n) ==
    [columns |-> cols, numeric |-> num, noised |-> <<>>, generalized |-> <<>>,
     values |-> <<>>, nrows |-> n, raised |-> "no"]

\* A cell: a number, NaN (pandas' missing value) or a text.
Num(n) == [k |-> "num", n |-> n, s |-> ""]

NaN == [k |-> "nan", n |-> 0, s |-> ""]

Cat(s) == [k |-> "str", n |-> 0, s |-> s]

\* df with the values recorded that a cell of some of its columns can hold
\* (the age, income and target columns; the others are not followed).
WithValues(df, vals) == [df EXCEPT !.values = vals]

NoFrame == Frame(<<>>, {}, 0)

_generate_health_records(size) ==
    WithValues(
    Frame(<<"patient_id", "age", "gender", "height_cm", "weight_kg",
            "blood_pressure_systolic", "blood_pressure_diastolic", "heart_rate",
            "temperature_c", "cholesterol", "glucose", "diagnosis", "medication",
            "admission_date", "discharge_date", "insurance_type">>,
          {"age", "height_cm", "weight_kg", "blood_pressure_systolic",
           "blood_pressure_diastolic", "heart_rate", "temperature_c", "cholesterol",
           "glucose"},
          size),
        [c \in {"age"} |-> {Num(a) : a \in 18..100}])

_generate_financial_data(size) ==
    WithValues(
    Frame(<<"transaction_id", "customer_id", "amount", "currency", "transaction_type",
            "merchant_category", "account_type", "location", "timestamp",
            "is_fraudulent", "credit_score", "income_level">>,
          {"amount", "credit_score"},
          size),
        [c \in {"income_level"} |-> {Cat("Low"), Cat("Medium"), Cat("High"), Cat("Very High")}])

_generate_sensor_logs(size) ==
    Frame(<<"sensor_id", "timestamp", "temperature_c", "humidity_percent", "pressure_hpa",
            "light_lux", "motion_detected", "battery_level", "signal_strength",
            "location_lat", "location_lon", "device_status">>,
          {"temperature_c", "humidity_percent", "pressure_hpa", "light_lux",
           "battery_level", "signal_strength", "location_lat", "location_lon"},
          size)

_generate_customer_data(size) ==
    Frame(<<"customer_id", "first_name", "last_name", "email", "phone", "date_of_birth",
            "address", "city", "state", "zip_code", "country", "registration_date",
            "last_login", "total_orders", "total_spent", "loyalty_tier",
            "preferred_category", "is_active", "marketing_consent">>,
          {"total_orders", "total_spent"},
          size)

_generate_research_data(size) ==
    WithValues(
    Frame(<<"feature_1", "feature_2", "feature_3", "feature_4", "feature_5",
            "feature_6", "feature_7", "feature_8", "feature_9", "feature_10",
            "target", "participant_id", "age", "gender", "education_level",
            "income_range", "experiment_group", "response_time_ms", "accuracy">>,
          {"feature_1", "feature_2", "feature_3", "feature_4", "feature_5",
           "feature_6", "feature_7", "feature_8", "feature_9", "feature_10",
           "target", "age", "response_time_ms", "accuracy"},
          size),
        [c \in {"target", "age", "income_range"} |->
            CASE c = "target" -> {Num(0), Num(1), Num(2)}
              [] c = "age" -> {Num(a) : a \in 18..80}
              [] c = "income_range" ->
                    {Cat("<30k"), Cat("30k-50k"), Cat("50k-75k"), Cat("75k-100k"), Cat(">100k")}])

ColumnSet(df) == {df.columns[i] : i \in 1..Len(df.columns)}

\* df.drop(col, axis=1): pandas raises KeyError for a label that is not a
\* column.
drop(df, col) ==
    IF col \in ColumnSet(df)
    THEN [df EXCEPT !.columns = SelectSeq(df.columns, LAMBDA c : c # col),
                    !.numeric = df.numeric \ {col},
                    !.values = [c \in (DOMAIN df.values) \ {col} |-> df.values[c]]]
    ELSE [df EXCEPT !.raised = "KeyError"]

\* The drop without its "if col in df.columns" test.
DropIfPresent_unguarded(df, col) == drop(df, col)

\* "if col in df.columns: df = df.drop(col, axis=1)".  An exception raised
\* earlier has already left the method.
DropIfPresent(df, col) ==
    IF df.raised = "no" /\ col \in ColumnSet(df) THEN drop(df, col) ELSE df

RECURSIVE DropColumns(_, _)
DropColumns(df, cols) ==
    IF Len(cols) = 0 THEN df ELSE DropColumns(DropIfPresent(df, Head(cols)), Tail(cols))

\* Displacements, in whole units, that noise * df[col].std() gives a cell
\* when the standard deviation is a number: none, one down, one up.
NoiseShifts == {-1, 0, 1}

\* df[col] + noise * df[col].std(): the sample standard deviation of fewer
\* than two rows is NaN and makes every cell NaN.
NoisedValues(vals, nrows) ==
    IF nrows < 2 THEN {NaN}
    ELSE {IF v.k = "num" THEN Num(v.n + d) ELSE v : v \in vals, d \in NoiseShifts}

\* The noise loop without its "if col != 'target'" test.
AddNoise_with_target(df, factor) ==
    [df EXCEPT !.noised = [c \in df.numeric |-> factor],
               !.values = [c \in DOMAIN df.values |->
                              IF c \in df.numeric
                              THEN NoisedValues(df.values[c], df.nrows)
                              ELSE df.values[c]]]

\* The noise loop followed by a dropna(): a frame of fewer than two rows,
\* whose noised cells are all NaN, loses its rows.
AddNoise_dropping_missing(df, factor) ==
    [df EXCEPT !.noised = [c \in df.numeric \ {"target"} |-> factor],
               !.values = [c \in DOMAIN df.values |->
                              IF c \in df.numeric \ {"target"}
                              THEN NoisedValues(df.values[c], df.nrows) \ {NaN}
                              ELSE df.values[c]],
               !.nrows = IF df.nrows < 2 /\ df.numeric \ {"target"} # {} THEN 0 ELSE df.nrows]

\* The loop over df.select_dtypes(include=[np.number]).columns, skipping 'target'.
AddNoise(df, factor) ==
    [df EXCEPT !.noised = [c \in df.numeric \ {"target"} |-> factor],
               !.values = [c \in DOMAIN df.values |->
                              IF c \in df.numeric \ {"target"}
                              THEN NoisedValues(df.values[c], df.nrows)
                              ELSE df.values[c]]]

\* pd.cut(x, bins=bins, labels=labels) of one cell: the label of the
\* interval (bins[i], bins[i+1]] holding x, NaN when no interval holds it.
cut(x, bins, labels) ==
    IF x.k = "num" /\ \E i \in 1..Len(labels) : bins[i] < x.n /\ x.n <= bins[i + 1]
    THEN Cat(labels[CHOOSE i \in 1..Len(labels) : bins[i] < x.n /\ x.n <= bins[i + 1]])
    ELSE NaN

\* Series.replace(to_replace) of one cell.
replace(x, to_replace) ==
    IF x.k = "str" /\ x.s \in DOMAIN to_replace THEN Cat(to_replace[x.s]) ELSE x

\* The cells the column col of df can hold; none when df has no such column.
CellsOf(df, col) == IF col \in DOMAIN df.values THEN df.values[col] ELSE {}

\* df[col] = recode(df[col]) guarded by "if col in df.columns"; recoded
\* gives the new cell for each cell the column can hold.
Generalize(df, col, labels, recoded) ==
    IF col \in ColumnSet(df)
    THEN [df EXCEPT !.generalized =
                        [c \in (DOMAIN df.generalized) \cup {col} |->
                            IF c = col THEN labels ELSE df.generalized[c]],
                    !.numeric = df.numeric \ {col},
                    !.values = [c \in DOMAIN df.values |->
                                   IF c = col THEN {recoded[v] : v \in df.values[c]}
                                   ELSE df.values[c]]]
    ELSE df

\* synthetic_generator.py:261-267.
GeneralizeHigh(df) ==
    LET aged == Generalize(df, "age", {"<30", "30-50", "50-70", "70+"},
                    [x \in CellsOf(df, "age") |->
                        cut(x, <<0, 30, 50, 70, 100>>, <<"<30", "30-50", "50-70", "70+">>)])
    IN  Generalize(aged, "income_range", {"Low", "Medium", "High"},
            [x \in CellsOf(aged, "income_range") |->
                replace(x, [s \in {"<30k", "30k-50k", "50k-75k", "75k-100k", ">100k"} |->
                               CASE s \in {"<30k", "30k-50k"} -> "Low"
                                 [] s \in {"50k-75k", "75k-100k"} -> "Medium"
                                 [] OTHER -> "High"])])

\* synthetic_generator.py:285-291.
GeneralizeMaximum(df) ==
    LET aged == Generalize(df, "age", {"Young", "Middle-aged", "Senior"},
                    [x \in CellsOf(df, "age") |->
                        cut(x, <<0, 40, 80, 100>>, <<"Young", "Middle-aged", "Senior">>)])
    IN  Generalize(aged, "income_range", {"Low", "High"},
            [x \in CellsOf(aged, "income_range") |->
                replace(x, [s \in {"<30k", "30k-50k", "50k-75k", "75k-100k", ">100k"} |->
                               CASE s \in {"<30k", "30k-50k", "50k-75k"} -> "Low"
                                 [] OTHER -> "High"])])

id_columns == <<"patient_id", "customer_id", "participant_id", "transaction_id", "sensor_id">>

location_columns == <<"address", "city", "state", "zip_code", "location_lat", "location_lon">>

\* The MEDIUM branch dropping the three identifiers of the LOW branch only.
_apply_privacy_transformations_short_ids(df, privacy_level) ==
    CASE privacy_level = "low" ->
            DropColumns(df, <<"patient_id", "customer_id", "participant_id">>)
      [] privacy_level = "medium" ->
            AddNoise(DropColumns(df, <<"patient_id", "participant_id">>), 1)
      [] privacy_level = "high" ->
            GeneralizeHigh(AddNoise(DropColumns(df, id_columns), 5))
      [] privacy_level = "maximum" ->
            DropColumns(GeneralizeMaximum(AddNoise(DropColumns(df, id_columns), 10)),
                        location_columns)
      [] OTHER -> df

_apply_privacy_transformations(df, privacy_level) ==
    CASE privacy_level = "low" ->
            DropColumns(df, <<"patient_id", "customer_id", "participant_id">>)
      [] privacy_level = "medium" ->
            AddNoise(DropColumns(df, id_columns), 1)
      [] privacy_level = "high" ->
            GeneralizeHigh(AddNoise(DropColumns(df, id_columns), 5))
      [] privacy_level = "maximum" ->
            DropColumns(GeneralizeMaximum(AddNoise(DropColumns(df, id_columns), 10)),
                        location_columns)
      [] OTHER -> df

\* generate_dataset falling back to the health schema where the code raises.
GenerateFrame_fallback(data_type, size) ==
    CASE data_type = "health_records" -> [raised |-> FALSE, df |-> _generate_health_records(size)]
      [] data_type = "financial_data" -> [raised |-> FALSE, df |-> _generate_financial_data(size)]
      [] data_type = "sensor_logs" -> [raised |-> FALSE, df |-> _generate_sensor_logs(size)]
      [] data_type = "customer_data" -> [raised |-> FALSE, df |-> _generate_customer_data(size)]
      [] data_type = "research_data" -> [raised |-> FALSE, df |-> _generate_research_data(size)]
      [] OTHER -> [raised |-> FALSE, df |-> _generate_health_records(size)]

\* The dispatch of generate_dataset on data_type (synthetic_generator.py:30-41):
\* raised is TRUE where the code raises ValueError.
GenerateFrame(data_type, size) ==
    CASE data_type = "health_records" -> [raised |-> FALSE, df |-> _generate_health_records(size)]
      [] data_type = "financial_data" -> [raised |-> FALSE, df |-> _generate_financial_data(size)]
      [] data_type = "sensor_logs" -> [raised |-> FALSE, df |-> _generate_sensor_logs(size)]
      [] data_type = "customer_data" -> [raised |-> FALSE, df |-> _generate_customer_data(size)]
      [] data_type = "research_data" -> [raised |-> FALSE, df |-> _generate_research_data(size)]
      [] OTHER -> [raised |-> TRUE, df |-> NoFrame]

\* f.write(params_json) on a file opened in text mode with the default
\* newline=None: every "\n" is written as os.linesep.
RECURSIVE WriteText(_, _)
WriteText(toks, linesep) ==
    IF Len(toks) = 0 THEN <<>>
    ELSE (IF Head(toks).k = "lf" THEN linesep ELSE <<Head(toks)>>)
         \o WriteText(Tail(toks), linesep)

\* f.read() on a file opened in text mode with the default newline=None
\* (universal newlines): "\r\n" and a lone "\r" are both returned as "\n".
RECURSIVE ReadText(_)
ReadText(toks) ==
    IF Len(toks) = 0 THEN <<>>
    ELSE IF Head(toks).k = "cr"
         THEN IF Len(toks) >= 2 /\ toks[2].k = "lf"
              THEN <<LF>> \o ReadText(Tail(Tail(toks)))
              ELSE <<LF>> \o ReadText(Tail(toks))
         ELSE <<Head(toks)>> \o ReadText(Tail(toks))

\* save_original_params writing the file whatever the text is.
save_original_params_unvalidated(files, linesep, request_id, params_json) ==
    IF ~params_json.some THEN files
    ELSE [files EXCEPT ![request_id] = Text(WriteText(params_json.toks, linesep))]

\* The files after save_original_params(request_id, params_json).
save_original_params(files, linesep, request_id, params_json) ==
    IF ~Truthy(params_json) THEN files
    ELSE IF ~Loads(params_json.toks).ok THEN files
    ELSE [files EXCEPT ![request_id] = Text(WriteText(params_json.toks, linesep))]

\* The value load_original_params(request_id) returns.
load_original_params(files, request_id) ==
    IF files[request_id].some THEN Text(ReadText(files[request_id].toks)) ELSE None

\* The masked value of one top-level field (data_masking.py:56-63).
MaskField(key, value) ==
    LET key_lower == Lower(key) IN
    IF key_lower = sName /\ IsList(value) THEN _mask_name_list(value.items)
    ELSE IF key_lower = sCountry /\ IsList(value) THEN _mask_country_list(value.items)
    ELSE _mask_generic_value(value)

\* generate_synthetic_params without its isinstance(params, dict) test: a
\* non-mapping value is masked generically instead of answered with None.
generate_synthetic_params_any_value(params_json) ==
    IF ~Truthy(params_json) THEN {None}
    ELSE LET r == Loads(params_json.toks) IN
         IF ~r.ok THEN {None}
         ELSE IF ~IsDict(r.val) THEN {Text(Dumps(v)) : v \in _mask_generic_value(r.val)}
         ELSE LET params == r.val.items IN
              {Text(Dumps(JDict([i \in 1..Len(params) |-> Pair(params[i].key, l[i])]))) :
                  l \in SeqProduct(
                      [i \in 1..Len(params) |-> MaskField(params[i].key, params[i].val)])}

\* The values generate_synthetic_params(params_json) can return.
generate_synthetic_params(params_json) ==
    IF ~Truthy(params_json) THEN {None}
    ELSE LET r == Loads(params_json.toks) IN
         IF ~r.ok THEN {None}
         ELSE IF ~IsDict(r.val) THEN {None}
         ELSE LET params == r.val.items IN
              {Text(Dumps(JDict([i \in 1..Len(params) |-> Pair(params[i].key, l[i])]))) :
                  l \in SeqProduct(
                      [i \in 1..Len(params) |-> MaskField(params[i].key, params[i].val)])}

-----------------------------------------------------------------------------
(* The parameter texts the checks submit. *)

MaxListLen == 2

ScalarValues == {JNull, JBool(TRUE), JNum(1), JStr(sAb)}

ElemValues ==
    { JStr(sAb), JNum(1), JList(<<JStr(sCd)>>), JDict(<<Pair(sNote, JStr(sAb))>>) }

\* A first element of any kind followed by strings, up to MaxListLen elements.
ListValues ==
    {JList(<<>>)} \cup
    {JList(<<e>> \o [i \in 1..(n - 1) |-> JStr(sCd)]) : e \in ElemValues, n \in 1..MaxListLen}

DictValues ==
    { JDict(<<>>), JDict(<<Pair(sNote, JStr(sAb))>>),
      JDict(<<Pair(sName, JList(<<JStr(sAb)>>)), Pair(sNote, JNull)>>) }

FieldValues == ScalarValues \cup ListValues \cup DictValues

FieldKeys == {sName, sNameCap, sCountry, sNote}

PairValues == {JStr(sCd), JNum(1), JList(<<JStr(sAb)>>)}

\* Top-level mappings: empty, one field of any value, two fields.
MappingValues ==
    {JDict(<<>>)} \cup
    {JDict(<<Pair(k, v)>>) : k \in FieldKeys, v \in FieldValues} \cup
    UNION {{JDict(<<Pair(k1, v1), Pair(k2, v2)>>) :
                k2 \in FieldKeys \ {k1}, v1 \in PairValues, v2 \in PairValues} :
            k1 \in FieldKeys}

\* Texts json.loads accepts that json.dumps would not have written: line
\* breaks as whitespace, a repeated key.
HandWrittenTexts ==
    { Text(<<Tok("{"), CR, LF, StrTok(sNote), Tok(":"), SP, NumTok(1), CR, LF, Tok("}")>>),
      Text(<<Tok("{"), LF, StrTok(sName), Tok(":"), Tok("["), StrTok(sAb), Tok("]"), Tok("}"), LF>>),
      Text(<<Tok("{"), CR, Tok("}")>>),
      Text(<<SP, Tok("["), NumTok(1), Tok(","), NumTok(1), Tok("]")>>),
      Text(<<Tok("{"), StrTok(sNote), Tok(":"), NumTok(1), Tok(","),
             StrTok(sNote), Tok(":"), StrTok(sAb), Tok("}")>>) }

\* Texts json.loads rejects.
MalformedTexts ==
    { Text(<<Tok("bad")>>), Text(<<SP>>), Text(<<Tok("{")>>),
      Text(<<Tok("{"), StrTok(sNote), Tok("}")>>),
      Text(<<Tok("{"), StrTok(sNote), Tok(":"), NumTok(1), Tok(","), Tok("}")>>),
      Text(<<Tok("{"), NumTok(1), Tok(":"), NumTok(1), Tok("}")>>),
      Text(<<Tok("["), NumTok(1), Tok(","), Tok("]")>>),
      Text(<<Tok("{"), Tok("}"), Tok("{"), Tok("}")>>),
      Text(<<StrTok(sAb), Tok(":"), NumTok(1)>>) }

MaskInputs ==
    {None, Text(<<>>)}
    \cup {Text(Dumps(v)) : v \in MappingValues \cup FieldValues}
    \cup HandWrittenTexts \cup MalformedTexts

-----------------------------------------------------------------------------
(* Specification of one call of generate_synthetic_params. *)

\* The other components at rest.
MaskIdle == maskIn = None /\ maskOut = None /\ maskPc = "idle"

VaultIdle ==
    /\ os_linesep = <<LF>>
    /\ vault = <<>>
    /\ vaultPuts = <<>>
    /\ vaultOp = [op |-> "idle"]

SimIdle == simA = JNull /\ simB = JNull /\ simOut = Zero /\ simPc = "idle"

AuditIdle ==
    /\ auditA = None
    /\ auditB = None
    /\ auditOut = [risk_level |-> "None"]
    /\ auditPc = "idle"
    /\ SimIdle

NoFile == [some |-> FALSE, df |-> NoFrame]

NoArgs == [data_type |-> "", size |-> 0, privacy_level |-> "", request_id |-> 0]

GenIdle ==
    /\ genArgs = NoArgs
    /\ genFrame = NoFrame
    /\ genDf = NoFrame
    /\ genFile = NoFile
    /\ genPc = "idle"

NoCall == [op |-> "none", id |-> 0, client |-> 0, code |-> 0, body |-> <<>>]

\* No handler is running.
NoTask ==
    [op |-> "none", id |-> 0, client |-> 0, pc |-> "", queue |-> <<>>,
     original |-> None, synthetic |-> None, frame |-> NoFrame, df |-> NoFrame]

ApiIdle ==
    /\ requests = <<>>
    /\ reports = <<>>
    /\ datasets = <<>>
    /\ last = NoCall
    /\ task = NoTask

MaskInit ==
    /\ maskIn \in MaskInputs
    /\ maskOut = None
    /\ maskPc = "call"
    /\ VaultIdle
    /\ AuditIdle
    /\ GenIdle
    /\ ApiIdle

MaskCall ==
    /\ maskPc = "call"
    /\ maskOut' \in generate_synthetic_params(maskIn)
    /\ maskPc' = "done"
    /\ UNCHANGED <<maskIn, vaultVars, auditVars, genVars, apiVars>>

MaskNext == MaskCall

SpecMask == MaskInit /\ [][MaskNext]_vars

-----------------------------------------------------------------------------
(* Specification of the vault: any sequence of save_original_params and    *)
(* load_original_params calls.                                             *)

MaxVaultIds == 2

VaultIds == 1..MaxVaultIds

VaultTexts ==
    { None, Text(<<>>), Text(<<Tok("{"), StrTok(sNote), Tok("}")>>),
      Text(Dumps(JDict(<<Pair(sNote, JStr(sAb))>>))),
      Text(<<Tok("{"), CR, LF, StrTok(sNote), Tok(":"), SP, NumTok(1), LF, Tok("}")>>) }

NeverPut == [called |-> FALSE, arg |-> None]

VaultInit ==
    /\ os_linesep \in {<<LF>>, <<CR, LF>>}
    /\ vault = [id \in VaultIds |-> None]
    /\ vaultPuts = [id \in VaultIds |-> NeverPut]
    /\ vaultOp = [op |-> "init", id |-> 0, ret |-> None, changed |-> FALSE]
    /\ MaskIdle
    /\ AuditIdle
    /\ GenIdle
    /\ ApiIdle

VaultPut(id, text) ==
    /\ vault' = save_original_params(vault, os_linesep, id, text)
    /\ vaultPuts' = [vaultPuts EXCEPT ![id] = [called |-> TRUE, arg |-> text]]
    /\ vaultOp' = [op |-> "put", id |-> id, ret |-> None, changed |-> vault' # vault]
    /\ UNCHANGED <<os_linesep, maskVars, auditVars, genVars, apiVars>>

VaultGet(id) ==
    /\ vaultOp' = [op |-> "get", id |-> id, ret |-> load_original_params(vault, id),
                   changed |-> FALSE]
    /\ UNCHANGED <<os_linesep, vault, vaultPuts, maskVars, auditVars, genVars, apiVars>>

VaultNext ==
    \/ \E id \in VaultIds, text \in VaultTexts : VaultPut(id, text)
    \/ \E id \in VaultIds : VaultGet(id)

SpecVault == VaultInit /\ [][VaultNext]_vars

-----------------------------------------------------------------------------
(* Specification of one call of generate_plagiarism_report. *)

MaxStrLen == 2

RECURSIVE StringsOfLen(_)
StringsOfLen(n) ==
    IF n = 0 THEN {<<>>}
    ELSE {Append(w, c) : w \in StringsOfLen(n - 1), c \in {"a", "b"}}

AuditStrings == UNION {StringsOfLen(n) : n \in 0..MaxStrLen}

sK == <<"k">>

AuditFieldValues ==
    {JStr(w) : w \in AuditStrings} \cup
    { JNull, JBool(TRUE), JNum(1), JNum(0),
      JList(<<>>), JList(<<JStr(sAb)>>), JList(<<JStr(<<"a">>), JNum(1)>>),
      JList(<<JBool(TRUE)>>), JList(<<JNum(1)>>),
      JDict(<<>>), JDict(<<Pair(sNote, JStr(sAb))>>), JDict(<<Pair(sNote, JNull)>>) }

AuditPairValues == {JStr(sAb), JStr(<<"a">>), JNull}

\* Two mappings of three fields whose similarities are 1/3, 5/6 and 14/15.
NearThresholdOriginal ==
    JDict(<<Pair(sK, JStr(<<"a", "b", "c">>)),
            Pair(sNote, JStr(<<"a", "b", "c", "d", "e", "f">>)),
            Pair(sName, JList(<<JStr(sAb), JStr(sAb), JStr(<<"a", "b", "c", "d", "e">>)>>))>>)

NearThresholdSynthetic ==
    JDict(<<Pair(sK, JStr(<<"a", "x", "y">>)),
            Pair(sNote, JStr(<<"a", "b", "c", "d", "e", "x">>)),
            Pair(sName, JList(<<JStr(sAb), JStr(sAb), JStr(<<"a", "b", "c", "d", "x">>)>>))>>)

AuditMappings ==
    {JDict(<<>>), JDict(<<Pair(sNote, JNum(1))>>)} \cup
    {NearThresholdOriginal, NearThresholdSynthetic} \cup
    {JDict(<<Pair(sK, v)>>) : v \in AuditFieldValues} \cup
    {JDict(<<Pair(sK, v), Pair(sNote, w)>>) : v \in AuditPairValues, w \in AuditPairValues}

AuditTexts ==
    {None, Text(<<>>), Text(<<SP>>), Text(<<Tok("{"), StrTok(sK), Tok("}")>>),
     Text(<<Tok("{"), LF, StrTok(sK), Tok(":"), NumTok(1), Tok("}")>>)}
    \cup {Text(Dumps(v)) : v \in AuditMappings \cup AuditFieldValues}

AuditInit ==
    /\ auditA \in AuditTexts
    /\ auditB \in AuditTexts
    /\ auditOut = [risk_level |-> "None"]
    /\ auditPc = "call"
    /\ SimIdle
    /\ MaskIdle
    /\ VaultIdle
    /\ GenIdle
    /\ ApiIdle

AuditCall ==
    /\ auditPc = "call"
    /\ auditOut' = generate_plagiarism_report(auditA, auditB)
    /\ auditPc' = "done"
    /\ UNCHANGED <<auditA, auditB, simVars, maskVars, vaultVars, genVars, apiVars>>

AuditNext == AuditCall

SpecAudit == AuditInit /\ [][AuditNext]_vars

-----------------------------------------------------------------------------
(* Specification of one call of _value_similarity on two parsed values.    *)

MaxSimLen == 3

SimAlphabet == {"a", "b", "c", "d"}

RECURSIVE SimStringsOfLen(_)
SimStringsOfLen(n) ==
    IF n = 0 THEN {<<>>}
    ELSE {Append(w, c) : w \in SimStringsOfLen(n - 1), c \in SimAlphabet}

SimStrings == UNION {SimStringsOfLen(n) : n \in 0..MaxSimLen}

\* Elements of a sequence: two strings, a number, two nested sequences, two
\* nested mappings.
SimElems ==
    { JStr(sAb), JStr(<<"a", "c">>), JNum(1),
      JList(<<JStr(sAb)>>), JList(<<JStr(<<"a", "c">>)>>),
      JDict(<<Pair(sK, JStr(sAb))>>), JDict(<<Pair(sK, JStr(<<"a", "c">>))>>) }

\* Sequences of up to MaxListLen elements.
SimLists ==
    UNION {{JList(l) : l \in SeqProduct([i \in 1..n |-> SimElems])} : n \in 0..MaxListLen}

\* The argument pairs: two strings, two sequences, or a string or a sequence
\* against a value of another type.
SimPairs ==
    {<<JStr(a), JStr(b)>> : a \in SimStrings, b \in SimStrings}
    \cup (SimLists \X SimLists)
    \cup ({JStr(sAb), JList(<<>>), JList(<<JNum(1)>>)} \X {JNum(1), JNull, JDict(<<>>)})

SimInit ==
    /\ \E pair \in SimPairs : simA = pair[1] /\ simB = pair[2]
    /\ simOut = Zero
    /\ simPc = "call"
    /\ auditA = None
    /\ auditB = None
    /\ auditOut = [risk_level |-> "None"]
    /\ auditPc = "idle"
    /\ MaskIdle
    /\ VaultIdle
    /\ GenIdle
    /\ ApiIdle

SimCall ==
    /\ simPc = "call"
    /\ simOut' = _value_similarity(simA, simB)
    /\ simPc' = "done"
    /\ UNCHANGED <<simA, simB, auditA, auditB, auditOut, auditPc,
                   maskVars, vaultVars, genVars, apiVars>>

SimNext == SimCall

SpecSim == SimInit /\ [][SimNext]_vars

-----------------------------------------------------------------------------
(* One call of SyntheticDataGenerator.generate_dataset, step by step: the  *)
(* dispatch on data_type, the privacy transformation, the write of         *)
(* data.csv.  The method is public, so data_type ranges over the five      *)
(* members of DataType and one value outside them.                         *)

MaxSize == 5

UnsupportedDataType == "image_data"

GenInit ==
    /\ genArgs \in [data_type : DataTypes \cup {UnsupportedDataType},
                    size : 1..MaxSize,
                    privacy_level : PrivacyLevels,
                    request_id : {1}]
    /\ genFrame = NoFrame
    /\ genDf = NoFrame
    /\ genFile = NoFile
    /\ genPc = "start"
    /\ MaskIdle
    /\ VaultIdle
    /\ AuditIdle
    /\ ApiIdle

\* synthetic_generator.py:30-39, a supported data_type.
GenGenerate ==
    /\ genPc = "start"
    /\ ~GenerateFrame(genArgs.data_type, genArgs.size).raised
    /\ genFrame' = GenerateFrame(genArgs.data_type, genArgs.size).df
    /\ genPc' = "generated"
    /\ UNCHANGED <<genArgs, genDf, genFile, maskVars, vaultVars, auditVars, apiVars>>

\* synthetic_generator.py:40-41, the else branch.
GenRaise ==
    /\ genPc = "start"
    /\ GenerateFrame(genArgs.data_type, genArgs.size).raised
    /\ genPc' = "raised"
    /\ UNCHANGED <<genArgs, genFrame, genDf, genFile, maskVars, vaultVars, auditVars, apiVars>>

\* synthetic_generator.py:44; an exception of the transformation leaves
\* generate_dataset before anything is written.
GenTransform ==
    /\ genPc = "generated"
    /\ LET df == _apply_privacy_transformations(genFrame, genArgs.privacy_level) IN
       IF df.raised = "no"
       THEN genDf' = df /\ genPc' = "transformed"
       ELSE genDf' = genDf /\ genPc' = "raised"
    /\ UNCHANGED <<genArgs, genFrame, genFile, maskVars, vaultVars, auditVars, apiVars>>

\* synthetic_generator.py:47-58.
GenSave ==
    /\ genPc = "transformed"
    /\ genFile' = [some |-> TRUE, df |-> genDf]
    /\ genPc' = "saved"
    /\ UNCHANGED <<genArgs, genFrame, genDf, maskVars, vaultVars, auditVars, apiVars>>

GenNext ==
    \/ GenGenerate
    \/ GenRaise
    \/ GenTransform
    \/ GenSave

SpecGen == GenInit /\ [][GenNext]_vars

-----------------------------------------------------------------------------
(* The request API: routers/requests.py and routers/admin.py over the      *)
(* requests table, the vault, the report files and the data set files.     *)
(* The handlers are coroutines without an await, so each runs to its end   *)
(* before the next one starts.                                             *)

MaxRequests == 1

RequestIds == 1..MaxRequests

ClientIds == {1, 2}

RequestStatuses == {"pending", "processing", "completed", "failed"}

\* output_path is NULL.
NoPath == [some |-> FALSE, root |-> "", id |-> 0]

\* os.path.join("./storage/requests/{request_id}", "data.csv").
StoragePath(request_id) == [some |-> TRUE, root |-> "storage", id |-> request_id]

\* A path sent in a RequestUpdate body.
SuppliedPath == [some |-> TRUE, root |-> "supplied", id |-> 0]

\* Request(client_id=..., ..., status=RequestStatus.PENDING) as committed.
Row(client_id, data_type, size, privacy_level, params) ==
    [present |-> TRUE, client_id |-> client_id, data_type |-> data_type, size |-> size,
     privacy_level |-> privacy_level, params |-> params, status |-> "pending",
     output_path |-> NoPath]

\* What is left at an id after db.delete(request).
DeletedRow ==
    [present |-> FALSE, client_id |-> 0, data_type |-> "", size |-> 0,
     privacy_level |-> "", params |-> None, status |-> "", output_path |-> NoPath]

NoReport == [some |-> FALSE, report |-> NewReport(None, None)]

\* db.query(Request).filter(Request.id == request_id).first() is not None.
Found(reqs, request_id) == request_id \in 1..Len(reqs) /\ reqs[request_id].present

\* The query without the owner filter.
FoundOwn_any_client(reqs, request_id, client_id) == Found(reqs, request_id)

\* The same query with the filter Request.client_id == current_client.id added.
FoundOwn(reqs, request_id, client_id) ==
    Found(reqs, request_id) /\ reqs[request_id].client_id = client_id

\* generate_dataset as one call: whether it raised, the data set files after
\* it, the path it returned.
generate_dataset(files, data_type, size, privacy_level, request_id) ==
    LET generated == GenerateFrame(data_type, size) IN
    IF generated.raised
    THEN [raised |-> TRUE, files |-> files, path |-> NoPath]
    ELSE [raised |-> FALSE,
          files |-> [files EXCEPT ![request_id] =
                        [some |-> TRUE,
                         df |-> _apply_privacy_transformations(generated.df, privacy_level)]],
          path |-> StoragePath(request_id)]

\* How the storage backend behaves during one processing attempt:
\* store_dataset and get_download_url both return, store_dataset raises
\* (an upload that fails), or get_download_url raises (no presigned URL).
StorageOutcomes == {"ok", "store_dataset raises", "get_download_url raises"}

\* A status check that lets every request through.
InProcessableState_any(status) == TRUE

\* admin.py:48: request.status in (RequestStatus.PENDING, RequestStatus.FAILED).
InProcessableState(status) == status \in {"pending", "failed"}

\* Processing without the except branch: a raise leaves the row as the try
\* block had it.
ProcessOne_unhandled(reqs, files, request_id, outcome) ==
    LET request == reqs[request_id]
        processing == [reqs EXCEPT ![request_id].status = "processing"]
        gen == generate_dataset(files, request.data_type, request.size,
                                request.privacy_level, request_id)
        completed == [processing EXCEPT ![request_id].status = "completed",
                                        ![request_id].output_path = gen.path]
    IN  IF gen.raised \/ outcome = "store_dataset raises"
        THEN [requests |-> processing, datasets |-> gen.files, code |-> 500]
        ELSE IF outcome = "get_download_url raises"
        THEN [requests |-> completed, datasets |-> gen.files, code |-> 500]
        ELSE [requests |-> completed, datasets |-> gen.files, code |-> 200]

\* The try/except of process_request for a request found processable: the
\* table and the data set files when the handler ends, and its answer.
ProcessOne(reqs, files, request_id, outcome) ==
    LET request == reqs[request_id]
        processing == [reqs EXCEPT ![request_id].status = "processing"]
        gen == generate_dataset(files, request.data_type, request.size,
                                request.privacy_level, request_id)
        completed == [processing EXCEPT ![request_id].status = "completed",
                                        ![request_id].output_path = gen.path]
    IN  IF gen.raised \/ outcome = "store_dataset raises"
        THEN [requests |-> [processing EXCEPT ![request_id].status = "failed"],
              datasets |-> gen.files, code |-> 500]
        ELSE IF outcome = "get_download_url raises"
        THEN [requests |-> [completed EXCEPT ![request_id].status = "failed"],
              datasets |-> gen.files, code |-> 500]
        ELSE [requests |-> completed, datasets |-> gen.files, code |-> 200]

\* The loop of process_all_requests over the rows its query returned.
RECURSIVE ProcessEach(_, _, _, _, _)
ProcessEach(reqs, files, to_process, outcomes, request_id) ==
    IF request_id > Len(reqs) THEN [requests |-> reqs, datasets |-> files, code |-> 200]
    ELSE IF request_id \in to_process
    THEN LET one == ProcessOne(reqs, files, request_id, outcomes[request_id]) IN
         ProcessEach(one.requests, one.datasets, to_process, outcomes, request_id + 1)
    ELSE ProcessEach(reqs, files, to_process, outcomes, request_id + 1)

\* The submissions made: the client, and the body posted (a data type, a
\* size, a privacy level, a params text).
Submissions ==
    { [client_id |-> 1,
       request |-> [data_type |-> "health_records", size |-> 2, privacy_level |-> "low",
                    params |-> Text(Dumps(JDict(<<Pair(sNote, JStr(sAb))>>)))]],
      [client_id |-> 2,
       request |-> [data_type |-> "research_data", size |-> 1, privacy_level |-> "maximum",
                    params |-> Text(<<Tok("{"), StrTok(sNote), Tok("}")>>)]] }

\* RequestUpdate bodies: a status alone, an output_path alone (status
\* "unset", absent), or COMPLETED together with an output_path.
RequestUpdates ==
    {[status |-> st, output_path |-> NoPath] : st \in RequestStatuses}
    \cup {[status |-> "unset", output_path |-> SuppliedPath],
          [status |-> "completed", output_path |-> SuppliedPath]}

\* The rows a table can hold before the first call: none, or one whose
\* data_type column holds a value outside the five that generate_dataset
\* dispatches on.
StoredRows == {<<>>, <<Row(1, UnsupportedDataType, 1, "low", None)>>}

Called(op, request_id, client_id, code) ==
    [op |-> op, id |-> request_id, client |-> client_id, code |-> code, body |-> <<>>]

\* A call answered with requests: body holds the params text of each.
Answered(op, request_id, client_id, body) ==
    [op |-> op, id |-> request_id, client |-> client_id, code |-> 200, body |-> body]

\* get_db closing the session (database.py:26-31) after a handler that
\* changed a loaded row and committed nothing, with the change flushed
\* instead of discarded.
SessionClosed_flushing(reqs, session) == session

\* get_db closing the session after a handler that changed loaded rows and
\* committed nothing: the table keeps what it held.
SessionClosed(reqs, session) == reqs

\* "original = load_original_params(id); if original is not None:
\* request.params = original", on the row as loaded in the session.
AttachOriginal(request, request_id) ==
    LET original == load_original_params(vault, request_id) IN
    IF original # None THEN [request EXCEPT !.params = original] ELSE request

Init ==
    /\ requests \in StoredRows
    /\ reports = [id \in RequestIds |-> NoReport]
    /\ datasets = [id \in RequestIds |-> NoFile]
    /\ last = NoCall
    /\ task = NoTask
    /\ os_linesep = <<LF>>
    /\ vault = [id \in RequestIds |-> None]
    /\ vaultPuts = <<>>
    /\ vaultOp = [op |-> "idle"]
    /\ MaskIdle
    /\ AuditIdle
    /\ GenIdle

\* requests.py:18-73.
create_request(client_id, request) ==
    /\ Len(requests) < MaxRequests
    /\ \E synthetic_params \in generate_synthetic_params(request.params) :
        LET request_id == Len(requests) + 1
            saved == save_original_params(vault, os_linesep, request_id, request.params)
            original == load_original_params(saved, request_id)
            report == generate_plagiarism_report(original, synthetic_params)
        IN  /\ requests' = Append(requests, Row(client_id, request.data_type, request.size,
                                                request.privacy_level, synthetic_params))
            /\ vault' = saved
            /\ reports' = [reports EXCEPT ![request_id] = [some |-> TRUE, report |-> report]]
            /\ last' = Called("create_request", request_id, client_id, 200)
    /\ UNCHANGED <<datasets, task, os_linesep, vaultPuts, vaultOp, maskVars, auditVars, genVars>>

\* requests.py:235-271.
update_request(client_id, request_id, request_update) ==
    /\ IF ~FoundOwn(requests, request_id, client_id)
       THEN /\ last' = Called("update_request", request_id, client_id, 404)
            /\ UNCHANGED requests
       ELSE IF requests[request_id].status # "pending"
       THEN /\ last' = Called("update_request", request_id, client_id, 400)
            /\ UNCHANGED requests
       ELSE /\ requests' =
                [requests EXCEPT
                    ![request_id].status =
                        IF request_update.status # "unset" THEN request_update.status ELSE @,
                    ![request_id].output_path =
                        IF request_update.output_path.some
                        THEN request_update.output_path ELSE @]
            /\ last' = Called("update_request", request_id, client_id, 200)
    /\ UNCHANGED <<reports, datasets, task, vaultVars, maskVars, auditVars, genVars>>

\* requests.py:273-300.
delete_request(client_id, request_id) ==
    /\ IF ~FoundOwn(requests, request_id, client_id)
       THEN /\ last' = Called("delete_request", request_id, client_id, 404)
            /\ UNCHANGED requests
       ELSE IF requests[request_id].status # "pending"
       THEN /\ last' = Called("delete_request", request_id, client_id, 400)
            /\ UNCHANGED requests
       ELSE /\ requests' = [requests EXCEPT ![request_id] = DeletedRow]
            /\ last' = Called("delete_request", request_id, client_id, 200)
    /\ UNCHANGED <<reports, datasets, task, vaultVars, maskVars, auditVars, genVars>>

\* requests.py:187-209.
get_request(client_id, request_id) ==
    /\ IF ~FoundOwn(requests, request_id, client_id)
       THEN /\ last' = Called("get_request", request_id, client_id, 404)
            /\ UNCHANGED requests
       ELSE LET request == AttachOriginal(requests[request_id], request_id) IN
            /\ last' = Answered("get_request", request_id, client_id, <<request.params>>)
            /\ requests' = SessionClosed(requests, [requests EXCEPT ![request_id] = request])
    /\ UNCHANGED <<reports, datasets, task, vaultVars, maskVars, auditVars, genVars>>

\* requests.py:173-185.
get_my_requests(client_id) ==
    /\ LET session == [id \in 1..Len(requests) |->
                          IF FoundOwn(requests, id, client_id)
                          THEN AttachOriginal(requests[id], id) ELSE requests[id]]
           mine == SelectSeq(session, LAMBDA r : r.present /\ r.client_id = client_id)
       IN  /\ last' = Answered("get_my_requests", 0, client_id,
                                [i \in 1..Len(mine) |-> mine[i].params])
           /\ requests' = SessionClosed(requests, session)
    /\ UNCHANGED <<reports, datasets, task, vaultVars, maskVars, auditVars, genVars>>

\* storage.py:13-47.  get_download_url raises when no file is at the path
\* (storage_manager.py:86-95); whether one is at a caller-supplied path is
\* not known.
get_download_link(request_id) ==
    /\ IF ~Found(requests, request_id)
       THEN last' = Called("get_download_link", request_id, 0, 404)
       ELSE IF requests[request_id].status # "completed"
       THEN last' = Called("get_download_link", request_id, 0, 400)
       ELSE IF ~requests[request_id].output_path.some
       THEN last' = Called("get_download_link", request_id, 0, 404)
       ELSE \E exists \in IF requests[request_id].output_path = SuppliedPath
                           THEN BOOLEAN
                           ELSE {datasets[requests[request_id].output_path.id].some} :
                last' = Called("get_download_link", request_id, 0,
                               IF exists THEN 200 ELSE 500)
    /\ UNCHANGED <<requests, reports, datasets, task, vaultVars, maskVars, auditVars, genVars>>

\* admin.py:33-116.
process_request(request_id) ==
    /\ IF ~Found(requests, request_id)
       THEN /\ last' = Called("process_request", request_id, 0, 404)
            /\ UNCHANGED <<requests, datasets>>
       ELSE IF ~InProcessableState(requests[request_id].status)
       THEN /\ last' = Called("process_request", request_id, 0, 400)
            /\ UNCHANGED <<requests, datasets>>
       ELSE \E outcome \in StorageOutcomes :
                LET done == ProcessOne(requests, datasets, request_id, outcome) IN
                /\ requests' = done.requests
                /\ datasets' = done.datasets
                /\ last' = Called("process_request", request_id, 0, done.code)
    /\ UNCHANGED <<reports, task, vaultVars, maskVars, auditVars, genVars>>

\* admin.py:118-163.
process_all_requests ==
    /\ LET to_process == {id \in 1..Len(requests) :
                              /\ requests[id].present
                              /\ requests[id].status \in {"pending", "failed"}}
       IN \E outcomes \in [to_process -> StorageOutcomes] :
        LET done == ProcessEach(requests, datasets, to_process, outcomes, 1)
        IN  /\ requests' = done.requests
            /\ datasets' = done.datasets
            /\ last' = Called("process_all_requests", 0, 0, 200)
    /\ UNCHANGED <<reports, task, vaultVars, maskVars, auditVars, genVars>>

\* admin.py:165-192.
update_request_status(request_id, request_update) ==
    /\ IF ~Found(requests, request_id)
       THEN /\ last' = Called("update_request_status", request_id, 0, 404)
            /\ UNCHANGED requests
       ELSE /\ requests' =
                [requests EXCEPT
                    ![request_id].status =
                        IF request_update.status # "unset" THEN request_update.status ELSE @,
                    ![request_id].output_path =
                        IF request_update.output_path.some
                        THEN request_update.output_path ELSE @]
            /\ last' = Called("update_request_status", request_id, 0, 200)
    /\ UNCHANGED <<reports, datasets, task, vaultVars, maskVars, auditVars, genVars>>

Next ==
    \/ \E submission \in Submissions :
            create_request(submission.client_id, submission.request)
    \/ \E client_id \in ClientIds, request_id \in RequestIds, request_update \in RequestUpdates :
            update_request(client_id, request_id, request_update)
    \/ \E client_id \in ClientIds, request_id \in RequestIds : delete_request(client_id, request_id)
    \/ \E request_id \in RequestIds : process_request(request_id)
    \/ process_all_requests
    \/ \E request_id \in RequestIds, request_update \in RequestUpdates :
            update_request_status(request_id, request_update)
    \/ \E client_id \in ClientIds, request_id \in RequestIds :
            get_request(client_id, request_id)
    \/ \E client_id \in ClientIds : get_my_requests(client_id)
    \/ \E request_id \in RequestIds : get_download_link(request_id)

Spec == Init /\ [][Next]_vars

-----------------------------------------------------------------------------
(* The two processing handlers of routers/admin.py over a table that       *)
(* already holds several requests in any status.                           *)

MaxBatch == 2

BatchIds == 1..MaxBatch

\* The rows a table can hold when processing is asked for: a request of a
\* supported or an unsupported type, in any status the status update of
\* admin.py:165-192 can have given it.
BatchRows ==
    {[Row(1, data_type, 2, "low", None) EXCEPT !.status = st] :
        data_type \in {"health_records", UnsupportedDataType}, st \in RequestStatuses}

BatchInit ==
    /\ requests \in [BatchIds -> BatchRows]
    /\ reports = [id \in BatchIds |-> NoReport]
    /\ datasets = [id \in BatchIds |-> NoFile]
    /\ last = NoCall
    /\ task = NoTask
    /\ os_linesep = <<LF>>
    /\ vault = [id \in BatchIds |-> None]
    /\ vaultPuts = <<>>
    /\ vaultOp = [op |-> "idle"]
    /\ MaskIdle
    /\ AuditIdle
    /\ GenIdle

BatchNext ==
    \/ \E request_id \in BatchIds : process_request(request_id)
    \/ process_all_requests

SpecBatch == BatchInit /\ [][BatchNext]_vars

-----------------------------------------------------------------------------
(* The same handlers statement by statement, as the event loop runs them.  *)
(* create_request, process_request and process_all_requests are            *)
(* "async def" bodies without an await (requests.py:20-73,                 *)
(* admin.py:34-163), served by the one uvicorn process of main.py:143: the *)
(* loop runs a body to its return before it starts another.                *)

\* An event loop that would start a handler while another is suspended.
LoopFree_preemptive(running) == TRUE

\* The event loop takes the next handler only when none is running.
LoopFree(running) == running = NoTask

LoopInit ==
    /\ requests = <<>>
    /\ reports = [id \in RequestIds |-> NoReport]
    /\ datasets = [id \in RequestIds |-> NoFile]
    /\ last = NoCall
    /\ task = NoTask
    /\ os_linesep = <<LF>>
    /\ vault = [id \in RequestIds |-> None]
    /\ vaultPuts = <<>>
    /\ vaultOp = [op |-> "idle"]
    /\ MaskIdle
    /\ AuditIdle
    /\ GenIdle

othersUnchanged == UNCHANGED <<os_linesep, vaultPuts, vaultOp, maskVars, auditVars, genVars>>

\* requests.py:31-45: the masked row is committed.
CreateCommit(client_id, request) ==
    /\ LoopFree(task)
    /\ Len(requests) < MaxRequests
    /\ \E synthetic_params \in generate_synthetic_params(request.params) :
        /\ requests' = Append(requests, Row(client_id, request.data_type, request.size,
                                            request.privacy_level, synthetic_params))
        /\ task' = [NoTask EXCEPT !.op = "create_request", !.id = Len(requests) + 1,
                                  !.client = client_id, !.pc = "committed",
                                  !.original = request.params,
                                  !.synthetic = synthetic_params]
    /\ UNCHANGED <<reports, datasets, last, vault>>
    /\ othersUnchanged

\* _parse_params_content_to_json for an upload declared as JSON
\* (requests.py:80-90): the mapping re-serialised, None for anything else.
_parse_params_content_to_json(content) ==
    IF ~Truthy(content) THEN None
    ELSE LET obj == Loads(content.toks) IN
         IF obj.ok /\ IsDict(obj.val) THEN Text(Dumps(obj.val)) ELSE None

\* The files uploaded with params_format "json": the client, the form
\* fields and the file's content.
Uploads ==
    { [client_id |-> 2,
       request |-> [data_type |-> "sensor_logs", size |-> 1, privacy_level |-> "medium",
                    params |-> Text(<<Tok("{"), LF, StrTok(sNote), Tok(":"), SP, NumTok(1),
                                      Tok("}")>>)]] }

\* requests.py:130-149: the upload is parsed and the masked row committed.
UploadCommit(client_id, request) ==
    /\ LoopFree(task)
    /\ Len(requests) < MaxRequests
    /\ LET params_json == _parse_params_content_to_json(request.params) IN
       \E synthetic_params \in generate_synthetic_params(params_json) :
        /\ requests' = Append(requests, Row(client_id, request.data_type, request.size,
                                            request.privacy_level, synthetic_params))
        /\ task' = [NoTask EXCEPT !.op = "create_request_upload", !.id = Len(requests) + 1,
                                  !.client = client_id, !.pc = "committed",
                                  !.original = params_json,
                                  !.synthetic = synthetic_params]
    /\ UNCHANGED <<reports, datasets, last, vault>>
    /\ othersUnchanged

\* requests.py:48, 152.
CreateVault ==
    /\ task.op \in {"create_request", "create_request_upload"} /\ task.pc = "committed"
    /\ vault' = save_original_params(vault, os_linesep, task.id, task.original)
    /\ task' = [task EXCEPT !.pc = "vaulted"]
    /\ UNCHANGED <<requests, reports, datasets, last>>
    /\ othersUnchanged

\* requests.py:51-73, 153-171: create_request audits the text read back
\* from the vault, create_request_upload the parsed upload itself.
CreateReport ==
    /\ task.op \in {"create_request", "create_request_upload"} /\ task.pc = "vaulted"
    /\ reports' = [reports EXCEPT ![task.id] =
                      [some |-> TRUE,
                       report |-> generate_plagiarism_report(
                                      IF task.op = "create_request"
                                      THEN load_original_params(vault, task.id)
                                      ELSE task.original,
                                      task.synthetic)]]
    /\ last' = Called(task.op, task.id, task.client, 200)
    /\ task' = NoTask
    /\ UNCHANGED <<requests, datasets, vault>>
    /\ othersUnchanged

\* The rows the query of process_all_requests returns, in id order.
RECURSIVE ToProcess(_, _)
ToProcess(reqs, request_id) ==
    IF request_id > Len(reqs) THEN <<>>
    ELSE IF reqs[request_id].present /\ reqs[request_id].status \in {"pending", "failed"}
    THEN <<request_id>> \o ToProcess(reqs, request_id + 1)
    ELSE ToProcess(reqs, request_id + 1)

\* admin.py:40-52: the request is looked up and found processable, or the
\* call is answered 404 or 400.
ProcessRequestBegin(request_id) ==
    /\ LoopFree(task)
    /\ IF ~Found(requests, request_id)
       THEN /\ last' = Called("process_request", request_id, 0, 404)
            /\ UNCHANGED task
       ELSE IF ~InProcessableState(requests[request_id].status)
       THEN /\ last' = Called("process_request", request_id, 0, 400)
            /\ UNCHANGED task
       ELSE /\ task' = [NoTask EXCEPT !.op = "process_request", !.id = request_id,
                                      !.pc = "start"]
            /\ UNCHANGED last
    /\ UNCHANGED <<requests, reports, datasets, vault>>
    /\ othersUnchanged

\* admin.py:124-126: the query, and the loop entered or skipped.
ProcessAllBegin ==
    /\ LoopFree(task)
    /\ LET to_process == ToProcess(requests, 1) IN
       IF to_process = <<>>
       THEN /\ last' = Called("process_all_requests", 0, 0, 200)
            /\ UNCHANGED task
       ELSE /\ task' = [NoTask EXCEPT !.op = "process_all_requests",
                                      !.id = Head(to_process),
                                      !.queue = Tail(to_process), !.pc = "start"]
            /\ UNCHANGED last
    /\ UNCHANGED <<requests, reports, datasets, vault>>
    /\ othersUnchanged

Processing == task.op \in {"process_request", "process_all_requests"}

\* The handler after it is done with task.id: process_request returns with
\* the given code, process_all_requests goes to its next row or returns.
Finished(code) ==
    IF task.queue = <<>>
    THEN /\ task' = NoTask
         /\ last' = Called(task.op, IF task.op = "process_request" THEN task.id ELSE 0, 0,
                           IF task.op = "process_request" THEN code ELSE 200)
    ELSE /\ task' = [NoTask EXCEPT !.op = task.op, !.id = Head(task.queue),
                                   !.queue = Tail(task.queue), !.pc = "start"]
         /\ UNCHANGED last

\* admin.py:56-58, 129-131.
ProcessMark ==
    /\ Processing /\ task.pc = "start"
    /\ requests' = [requests EXCEPT ![task.id].status = "processing"]
    /\ task' = [task EXCEPT !.pc = "processing"]
    /\ UNCHANGED <<reports, datasets, last, vault>>
    /\ othersUnchanged

\* synthetic_generator.py:30-41 called from admin.py:65, 135; on ValueError
\* the except branch (admin.py:99-116, 154-162).
ProcessGenerate ==
    /\ Processing /\ task.pc = "processing"
    /\ LET request == requests[task.id]
           generated == GenerateFrame(request.data_type, request.size)
       IN  IF generated.raised
           THEN /\ requests' = [requests EXCEPT ![task.id].status = "failed"]
                /\ Finished(500)
           ELSE /\ task' = [task EXCEPT !.pc = "generated", !.frame = generated.df]
                /\ UNCHANGED <<requests, last>>
    /\ UNCHANGED <<reports, datasets, vault>>
    /\ othersUnchanged

\* synthetic_generator.py:44.
ProcessTransform ==
    /\ Processing /\ task.pc = "generated"
    /\ task' = [task EXCEPT !.pc = "transformed",
                            !.df = _apply_privacy_transformations(
                                       task.frame, requests[task.id].privacy_level)]
    /\ UNCHANGED <<requests, reports, datasets, last, vault>>
    /\ othersUnchanged

\* synthetic_generator.py:47-58.
ProcessSave ==
    /\ Processing /\ task.pc = "transformed"
    /\ datasets' = [datasets EXCEPT ![task.id] = [some |-> TRUE, df |-> task.df]]
    /\ task' = [task EXCEPT !.pc = "saved"]
    /\ UNCHANGED <<requests, reports, last, vault>>
    /\ othersUnchanged

\* admin.py:74-97, 142-153, and the except branch when the storage raises.
ProcessPublish ==
    /\ Processing /\ task.pc = "saved"
    /\ \E outcome \in StorageOutcomes :
        /\ requests' =
            [requests EXCEPT
                ![task.id].status =
                    IF outcome = "ok" THEN "completed" ELSE "failed",
                ![task.id].output_path =
                    IF outcome = "store_dataset raises" THEN @ ELSE StoragePath(task.id)]
        /\ Finished(IF outcome = "ok" THEN 200 ELSE 500)
    /\ UNCHANGED <<reports, datasets, vault>>
    /\ othersUnchanged

LoopNext ==
    \/ \E submission \in Submissions :
            CreateCommit(submission.client_id, submission.request)
    \/ \E upload \in Uploads : UploadCommit(upload.client_id, upload.request)
    \/ CreateVault
    \/ CreateReport
    \/ \E request_id \in RequestIds : ProcessRequestBegin(request_id)
    \/ ProcessAllBegin
    \/ ProcessMark
    \/ ProcessGenerate
    \/ ProcessTransform
    \/ ProcessSave
    \/ ProcessPublish
    \/ \E client_id \in ClientIds, request_id \in RequestIds, request_update \in RequestUpdates :
            LoopFree(task) /\ update_request(client_id, request_id, request_update)
    \/ \E client_id \in ClientIds, request_id \in RequestIds :
            LoopFree(task) /\ delete_request(client_id, request_id)
    \/ \E request_id \in RequestIds, request_update \in RequestUpdates :
            LoopFree(task) /\ update_request_status(request_id, request_update)

SpecLoop == LoopInit /\ [][LoopNext]_vars

-----------------------------------------------------------------------------
(* Claims about generate_synthetic_params (SpecMask). *)

MaskInParsed == Loads(maskIn.toks)

MaskInIsMapping == Truthy(maskIn) /\ MaskInParsed.ok /\ IsDict(MaskInParsed.val)

\* b has the shape of a: the same key set where a is a mapping, the same
\* length where a is a sequence, a scalar where a is a scalar.
RECURSIVE SameShape(_, _)
SameShape(a, b) ==
    CASE IsDict(a) ->
            /\ IsDict(b)
            /\ DictKeys(b) = DictKeys(a)
            /\ \A k \in DictKeys(a) : SameShape(DictGet(a, k), DictGet(b, k))
      [] IsList(a) ->
            /\ IsList(b)
            /\ Len(b.items) = Len(a.items)
            /\ \A i \in 1..Len(a.items) : SameShape(a.items[i], b.items[i])
      [] OTHER -> ~IsDict(b) /\ ~IsList(b)

\* C1: for every input text that parses to a JSON mapping, the masked output
\* parses to a tree of the same shape: same key set at every mapping level,
\* same length for every sequence, scalars only where the input had scalars.
C1_MaskKeepsShape ==
    (maskPc = "done" /\ MaskInIsMapping) =>
        /\ maskOut.some
        /\ Loads(maskOut.toks).ok
        /\ SameShape(MaskInParsed.val, Loads(maskOut.toks).val)

\* C9: generate_synthetic_params returns None for a None input, the empty
\* string, a text json.loads rejects, and a text whose top-level value is
\* not a mapping.
C9_MaskNullCases ==
    (maskPc = "done" /\ ~MaskInIsMapping) => maskOut = None

\* C9 witness: a call on a text that parses to a list has returned None.
C9_Witness ==
    /\ maskPc = "done"
    /\ Truthy(maskIn) /\ MaskInParsed.ok /\ IsList(MaskInParsed.val)
    /\ maskOut = None

\* The value is a list whose elements are all strings.
IsListOfStrings(value) ==
    IsList(value) /\ \A i \in 1..Len(value.items) : IsStr(value.items[i])

PairwiseDistinct(items) ==
    \A i, j \in 1..Len(items) : i # j => items[i] # items[j]

\* C18: for every top-level key that is "name" in lower case and holds a list
\* of strings, the output holds under that key a list of the same length,
\* of generated names, no two of them equal.
C18_NamesPairwiseDistinct ==
    (maskPc = "done" /\ MaskInIsMapping) =>
        \A key \in DictKeys(MaskInParsed.val) :
            (Lower(key) = sName /\ IsListOfStrings(DictGet(MaskInParsed.val, key))) =>
                LET names == DictGet(MaskInParsed.val, key)
                    masked == DictGet(Loads(maskOut.toks).val, key)
                IN  /\ DictHas(Loads(maskOut.toks).val, key)
                    /\ IsList(masked)
                    /\ Len(masked.items) = Len(names.items)
                    /\ \A i \in 1..Len(masked.items) :
                           IsStr(masked.items[i]) /\ masked.items[i].s \in FakeNames
                    /\ PairwiseDistinct(masked.items)


MaskOutParsed == Loads(maskOut.toks)

\* C19: for every input text that parses to a mapping, the output parses to
\* a mapping with the same top-level keys, spelled as in the input, and
\* every top-level field holding a list in the input holds a list of the
\* same length in the output, the "name" and "country" fields included.
C19_TopLevelKeysAndLengths ==
    (maskPc = "done" /\ MaskInIsMapping) =>
        /\ maskOut.some
        /\ MaskOutParsed.ok
        /\ IsDict(MaskOutParsed.val)
        /\ DictKeys(MaskOutParsed.val) = DictKeys(MaskInParsed.val)
        /\ \A key \in DictKeys(MaskInParsed.val) :
               IsList(DictGet(MaskInParsed.val, key)) =>
                   /\ IsList(DictGet(MaskOutParsed.val, key))
                   /\ Len(DictGet(MaskOutParsed.val, key).items)
                          = Len(DictGet(MaskInParsed.val, key).items)

\* A mapping with a list of more than one element under "Name" has been
\* masked: the output has the key "Name" and a list as long under it.
C19_Witness ==
    /\ maskPc = "done"
    /\ MaskInIsMapping
    /\ DictHas(MaskInParsed.val, sNameCap)
    /\ IsList(DictGet(MaskInParsed.val, sNameCap))
    /\ Len(DictGet(MaskInParsed.val, sNameCap).items) > 1
    /\ maskOut.some
    /\ DictKeys(MaskOutParsed.val) = {sNameCap}
    /\ Len(DictGet(MaskOutParsed.val, sNameCap).items)
           = Len(DictGet(MaskInParsed.val, sNameCap).items)


-----------------------------------------------------------------------------
(* Claims about the vault (SpecVault). *)

ValidJson(text) == Truthy(text) /\ Loads(text.toks).ok

\* C10: load_original_params called after save_original_params(id, text)
\* with a text that parses as JSON returns exactly that text; and a
\* save_original_params call with a None, empty or unparseable text leaves the
\* vault unchanged.
C10_PutThenGet ==
    /\ \A id \in VaultIds :
          (vaultPuts[id].called /\ ValidJson(vaultPuts[id].arg)) =>
              load_original_params(vault, id) = vaultPuts[id].arg
    /\ (vaultOp.op = "put" /\ ~ValidJson(vaultPuts[vaultOp.id].arg)) => ~vaultOp.changed

\* C11: load_original_params(id) returns None when save_original_params was
\* never called for id, and also when the most recent save_original_params
\* call for id failed (its text was None, empty or not JSON), even if an
\* earlier call for the same id had written a text.
C11_GetNullAfterFailedPut ==
    \A id \in VaultIds :
        (~vaultPuts[id].called \/ ~ValidJson(vaultPuts[id].arg)) =>
            load_original_params(vault, id) = None

-----------------------------------------------------------------------------
(* Claims about generate_plagiarism_report (SpecAudit). *)

IsAbsent(text) == text = None \/ text = Text(<<>>)

Parses(text) == ~IsAbsent(text) /\ Loads(text.toks).ok

FailsToParse(text) == ~IsAbsent(text) /\ ~Loads(text.toks).ok

IsMappingText(text) == Parses(text) /\ IsDict(Loads(text.toks).val)

AuditDone == auditPc = "done"

\* C4: for every text X that parses as a JSON mapping (with zero or more
\* keys), the report of X against X has overall_similarity 1.0.
C4_SelfSimilarityIsOne ==
    (AuditDone /\ auditA = auditB /\ IsMappingText(auditA)) =>
        auditOut.overall_similarity = Score(TenThousand)

\* C5: when both texts are mappings, per_field has exactly the union of the
\* two top-level key sets as its keys, and a key present on one side only
\* scores 0.0 whatever value that side holds for it.
C5_MissingKeyScoresZero ==
    (AuditDone /\ IsMappingText(auditA) /\ IsMappingText(auditB)) =>
        LET a == Loads(auditA.toks).val
            b == Loads(auditB.toks).val IN
        /\ DOMAIN auditOut.per_field = DictKeys(a) \cup DictKeys(b)
        /\ \A k \in DictKeys(a) \cup DictKeys(b) :
              (DictHas(a, k) # DictHas(b, k)) => auditOut.per_field[k] = 0

\* C6: overall_similarity is present exactly when both texts are present and
\* both parse; when present it lies in [0,1], as does every per_field value;
\* when absent the risk_level is unknown or invalid_json.
C6_ScoreBounds ==
    AuditDone =>
        /\ auditOut.overall_similarity.some <=> (Parses(auditA) /\ Parses(auditB))
        /\ auditOut.overall_similarity.some =>
              auditOut.overall_similarity.val \in 0..TenThousand
        /\ \A k \in DOMAIN auditOut.per_field : auditOut.per_field[k] \in 0..TenThousand
        /\ ~auditOut.overall_similarity.some =>
              auditOut.risk_level \in {"unknown", "invalid_json"}

\* C6 witness: a report of two mappings with a score strictly between 0 and 1.
C6_Witness ==
    /\ AuditDone
    /\ auditOut.overall_similarity.some
    /\ auditOut.overall_similarity.val \in 1..(TenThousand - 1)
    /\ DOMAIN auditOut.per_field # {}

\* C7 as stated: whenever at least one of the two texts fails to parse (and
\* the two are not both absent), the report has overall_similarity absent and
\* risk_level invalid_json.
C7_AnyParseFailure ==
    (AuditDone /\ ~(IsAbsent(auditA) /\ IsAbsent(auditB))
               /\ (FailsToParse(auditA) \/ FailsToParse(auditB))) =>
        /\ ~auditOut.overall_similarity.some
        /\ auditOut.risk_level = "invalid_json"

\* C7 amended: whenever both texts are present and at least one of them fails
\* to parse, the report has overall_similarity absent and risk_level
\* invalid_json.
C7_BothPresentParseFailure ==
    (AuditDone /\ ~IsAbsent(auditA) /\ ~IsAbsent(auditB)
               /\ (FailsToParse(auditA) \/ FailsToParse(auditB))) =>
        /\ ~auditOut.overall_similarity.some
        /\ auditOut.risk_level = "invalid_json"

\* C7 witness: the original parses, the other text does not, and the report
\* says invalid_json.
C7_Witness ==
    /\ AuditDone
    /\ Parses(auditA) /\ FailsToParse(auditB)
    /\ auditOut.risk_level = "invalid_json"

\* C8: when the original text is absent (the other present or absent too),
\* has_original and has_synthetic tell the presence of each side,
\* overall_similarity is absent, per_field is empty and risk_level is unknown.
C8_AbsentOriginal ==
    (AuditDone /\ IsAbsent(auditA)) =>
        /\ auditOut.has_original = FALSE
        /\ auditOut.has_synthetic = ~IsAbsent(auditB)
        /\ ~auditOut.overall_similarity.some
        /\ DOMAIN auditOut.per_field = {}
        /\ auditOut.risk_level = "unknown"

\* C8 witness: the report of audit(None, "{}").
C8_Witness ==
    /\ AuditDone
    /\ auditA = None
    /\ auditB = Text(<<Tok("{"), Tok("}")>>)
    /\ auditOut.risk_level = "unknown"

\* The level the thresholds give for a score in ten-thousandths.
LevelOf(val) ==
    IF val >= 9000 THEN "high" ELSE IF val >= 7000 THEN "medium" ELSE "low"

\* C20: in every report that carries an overall_similarity, risk_level is
\* the level of that reported value: high from 0.9, medium from 0.7 and
\* below 0.9, low below 0.7, for two mappings and for any other pair of
\* parsed values.
C20_RiskAgreesWithReportedScore ==
    (AuditDone /\ auditOut.overall_similarity.some) =>
        auditOut.risk_level = LevelOf(auditOut.overall_similarity.val)


-----------------------------------------------------------------------------
(* Claims about the privacy transformer, over SpecGen.                     *)

LevelsFrom(level) ==
    CASE level = "low" -> {"low", "medium", "high", "maximum"}
      [] level = "medium" -> {"medium", "high", "maximum"}
      [] level = "high" -> {"high", "maximum"}
      [] level = "maximum" -> {"maximum"}

\* The columns of the generated frame that the transformed frame no longer has.
Dropped(before, after) == ColumnSet(before) \ ColumnSet(after)

\* The columns of the transformed frame that were recoded to bucket labels.
Generalized(after) == (DOMAIN after.generalized) \cap ColumnSet(after)

GenTransformed == genPc \in {"transformed", "saved"}

\* C3: for each schema, the columns dropped at a level are dropped at every
\* higher level (low within medium within high within maximum), and every
\* column generalized at high is also generalized at maximum.
C3_PrivacyMonotone ==
    GenTransformed =>
        \A higher \in LevelsFrom(genArgs.privacy_level) :
            LET above == _apply_privacy_transformations(genFrame, higher) IN
            /\ Dropped(genFrame, genDf) \subseteq Dropped(genFrame, above)
            /\ Generalized(genDf) \subseteq Generalized(above)

\* A research data set transformed at high: participant_id is dropped, age
\* and income_range are generalized.
C3_Witness ==
    /\ GenTransformed
    /\ genArgs.privacy_level = "high"
    /\ Dropped(genFrame, genDf) = {"participant_id"}
    /\ Generalized(genDf) = {"age", "income_range"}

\* The identifier column each schema is built around.
PrimaryId(data_type) ==
    CASE data_type = "health_records" -> "patient_id"
      [] data_type = "financial_data" -> "transaction_id"
      [] data_type = "sensor_logs" -> "sensor_id"
      [] data_type = "customer_data" -> "customer_id"
      [] data_type = "research_data" -> "participant_id"

\* C12: at privacy level low, the transformed data set of each of the five
\* schemas no longer has the schema's own primary identifier column.
C12_LowDropsPrimaryId ==
    (GenTransformed /\ genArgs.privacy_level = "low") =>
        PrimaryId(genArgs.data_type) \notin ColumnSet(genDf)

\* The columns of the five schemas that hold location data: the six named in
\* location_columns, the "city, state" text of financial_data and the country
\* of customer_data.
LocationDataColumns ==
    {"address", "city", "state", "zip_code", "location_lat", "location_lon",
     "location", "country"}

IdentifierColumns ==
    {"patient_id", "customer_id", "participant_id", "transaction_id", "sensor_id"}

\* C13: at privacy level maximum, the transformed data set of every data
\* type has none of the five identifier columns and no column holding
\* location data.
C13_MaximumDropsIdsAndLocations ==
    (GenTransformed /\ genArgs.privacy_level = "maximum") =>
        ColumnSet(genDf) \cap (IdentifierColumns \cup LocationDataColumns) = {}

AgeLabels(privacy_level) ==
    IF privacy_level = "high" THEN {Cat("<30"), Cat("30-50"), Cat("50-70"), Cat("70+")}
    ELSE {Cat("Young"), Cat("Middle-aged"), Cat("Senior")}

IncomeLabels(privacy_level) ==
    IF privacy_level = "high" THEN {Cat("Low"), Cat("Medium"), Cat("High")}
    ELSE {Cat("Low"), Cat("High")}

\* The income columns of the schemas: income_range of research_data and
\* income_level of financial_data.
IncomeColumns == {"income_range", "income_level"}

\* C14: after the transformation at high or maximum, in every schema that
\* has the column, every age cell is one of the level's age labels and every
\* income cell is one of the level's income labels; none is missing or left
\* ungeneralized.
C14_CellsAreLabels ==
    (GenTransformed /\ genArgs.privacy_level \in {"high", "maximum"}) =>
        \A c \in (DOMAIN genDf.values) \cap ColumnSet(genDf) :
            /\ c = "age" => genDf.values[c] \subseteq AgeLabels(genArgs.privacy_level)
            /\ c \in IncomeColumns =>
                  genDf.values[c] \subseteq IncomeLabels(genArgs.privacy_level)

\* The columns of the data set of one row of the given type at the given level.
ColumnsAt(data_type, privacy_level) ==
    ColumnSet(_apply_privacy_transformations(GenerateFrame(data_type, 1).df, privacy_level))

\* C22: the data set written for a supported type has exactly size rows, and
\* its columns are those of any other size at the same type and level, each
\* once; for health_records at low they are the health columns without
\* patient_id.
C22_RowsAndColumns ==
    genPc = "saved" =>
        /\ genFile.some
        /\ genFile.df.nrows = genArgs.size
        /\ ColumnSet(genFile.df) = ColumnsAt(genArgs.data_type, genArgs.privacy_level)
        /\ Cardinality(ColumnSet(genFile.df)) = Len(genFile.df.columns)
        /\ (genArgs.data_type = "health_records" /\ genArgs.privacy_level = "low") =>
               ColumnSet(genFile.df) =
                   {"age", "gender", "height_cm", "weight_kg", "blood_pressure_systolic",
                    "blood_pressure_diastolic", "heart_rate", "temperature_c", "cholesterol",
                    "glucose", "diagnosis", "medication", "admission_date",
                    "discharge_date", "insurance_type"}

\* generate(health_records, size=5, low) has written its file: 5 rows, no
\* patient_id.
C22_Witness ==
    /\ genPc = "saved"
    /\ genArgs.data_type = "health_records"
    /\ genArgs.size = 5
    /\ genArgs.privacy_level = "low"
    /\ genFile.df.nrows = 5
    /\ "patient_id" \notin ColumnSet(genFile.df)
    /\ "age" \in ColumnSet(genFile.df)


\* The columns the suppression rules of a level name.
SuppressedAt(privacy_level) ==
    CASE privacy_level = "low" -> {"patient_id", "customer_id", "participant_id"}
      [] privacy_level \in {"medium", "high"} ->
            {id_columns[i] : i \in 1..Len(id_columns)}
      [] OTHER -> {id_columns[i] : i \in 1..Len(id_columns)}
                  \cup {location_columns[i] : i \in 1..Len(location_columns)}

\* The columns the generalization rules of a level name.
GeneralizedAt(privacy_level) ==
    IF privacy_level \in {"high", "maximum"} THEN {"age", "income_range"} ELSE {}

\* C24: for every schema and level the transformation returns without an
\* exception (generate_dataset raises for an unsupported data_type only),
\* and a suppression or generalization rule naming a column the frame does
\* not have leaves the frame as it is.
C24_AbsentColumnIsNoOp ==
    /\ genPc = "raised" => genArgs.data_type \notin DataTypes
    /\ genPc \in {"transformed", "saved"} =>
          /\ genDf.raised = "no"
          /\ \A col \in SuppressedAt(genArgs.privacy_level) \ ColumnSet(genFrame) :
                 /\ DropIfPresent(genFrame, col) = genFrame
                 /\ col \notin ColumnSet(genDf)
          /\ \A col \in GeneralizedAt(genArgs.privacy_level) \ ColumnSet(genFrame) :
                 /\ Generalize(genFrame, col, {}, <<>>) = genFrame
                 /\ col \notin ColumnSet(genDf)
                 /\ col \notin DOMAIN genDf.generalized

\* sensor_logs has gone through the maximum level, whose rules name
\* patient_id, age and income_range, none of them a sensor column.
C24_Witness ==
    /\ genPc = "transformed"
    /\ genArgs.data_type = "sensor_logs"
    /\ genArgs.privacy_level = "maximum"
    /\ {"patient_id", "age", "income_range", "address"} \cap ColumnSet(genFrame) = {}
    /\ genDf.raised = "no"
    /\ "sensor_id" \notin ColumnSet(genDf)


\* C23: at every level a frame with a target column keeps it: the column is
\* not dropped, not noised and not recoded, and its cells are the cells the
\* generator wrote.
C23_TargetUntouched ==
    (genPc \in {"transformed", "saved"} /\ "target" \in ColumnSet(genFrame)) =>
        /\ "target" \in ColumnSet(genDf)
        /\ "target" \notin DOMAIN genDf.noised
        /\ "target" \notin DOMAIN genDf.generalized
        /\ genDf.values["target"] = genFrame.values["target"]
        /\ ("target" \in genDf.numeric) = ("target" \in genFrame.numeric)

\* A research_data frame has gone through the maximum level: its other
\* numeric columns are noised, target is not.
C23_Witness ==
    /\ genPc = "transformed"
    /\ genArgs.data_type = "research_data"
    /\ genArgs.privacy_level = "maximum"
    /\ "target" \in genFrame.numeric
    /\ "accuracy" \in DOMAIN genDf.noised
    /\ "target" \notin DOMAIN genDf.noised
    /\ genDf.values["target"] = genFrame.values["target"]


-----------------------------------------------------------------------------
(* Claims about the request API, over Spec.                                *)

Processable(request_id) ==
    /\ Found(requests, request_id)
    /\ requests[request_id].status \in {"pending", "failed"}

Unsupported(request_id) ==
    /\ Found(requests, request_id)
    /\ requests[request_id].data_type \notin DataTypes

\* C2: when process_request or process_all_requests runs generation for a
\* request whose data_type is outside the five supported ones,
\* generate_dataset raises before any data set file is written for it, and the
\* call leaves the request in status FAILED, never COMPLETED, with its output_path
\* as it was.
C2_UnsupportedTypeFails ==
    [][\A request_id \in RequestIds :
          /\ Processable(request_id)
          /\ Unsupported(request_id)
          /\ process_request(request_id) \/ process_all_requests
          => /\ generate_dataset(datasets, requests[request_id].data_type,
                                  requests[request_id].size,
                                  requests[request_id].privacy_level, request_id).raised
             /\ datasets'[request_id] = datasets[request_id]
             /\ requests'[request_id].status = "failed"
             /\ requests'[request_id].output_path = requests[request_id].output_path]_vars

\* process_request has just answered 500 for a request of an unsupported
\* data_type that carried an output_path: the request is FAILED, the path is
\* still there and no data set file exists.
C2_Witness ==
    /\ last.op = "process_request"
    /\ last.code = 500
    /\ Unsupported(last.id)
    /\ requests[last.id].status = "failed"
    /\ requests[last.id].output_path = SuppliedPath
    /\ ~datasets[last.id].some

\* C16: once a request is in the table, no API call changes its masked
\* params in the table, its original text in the vault or its stored report,
\* for as long as the request exists; a response carrying the original does
\* not write it to the table.
C16_SubmittedDataFrozen ==
    [][\A request_id \in RequestIds :
          (Found(requests, request_id) /\ Found(requests', request_id)) =>
              /\ requests'[request_id].params = requests[request_id].params
              /\ vault'[request_id] = vault[request_id]
              /\ reports'[request_id] = reports[request_id]]_vars

\* get_request has just answered with the original text in place of the
\* masked params, and the table still holds the masked params.
C16_Witness ==
    /\ last.op = "get_request"
    /\ last.code = 200
    /\ vault[last.id].some
    /\ last.body = <<load_original_params(vault, last.id)>>
    /\ last.body # <<requests[last.id].params>>
    /\ reports[last.id].some

\* C26: update_request and delete_request by a client on a request of
\* another client answer 404, on an own request that is PROCESSING,
\* COMPLETED or FAILED answer 400, and in both cases leave the table, the
\* vault, the reports and the data set files as they were; on an own PENDING
\* request they answer 200.
C26_OwnPendingOnly ==
    [][\A request_id \in RequestIds :
          (/\ last'.op \in {"update_request", "delete_request"}
           /\ last'.id = request_id
           /\ Found(requests, request_id)) =>
              LET request == requests[request_id] IN
              /\ request.client_id # last'.client =>
                     /\ last'.code = 404
                     /\ requests' = requests
              /\ (request.client_id = last'.client /\ request.status # "pending") =>
                     /\ last'.code = 400
                     /\ requests' = requests
              /\ (request.client_id = last'.client /\ request.status = "pending") =>
                     last'.code = 200
              /\ vault' = vault /\ reports' = reports /\ datasets' = datasets]_vars

\* delete_request by its owner has been turned down with 400 for a request
\* that is past PENDING, and the request is still there.
C26_Witness ==
    /\ last.op = "delete_request"
    /\ last.code = 400
    /\ Found(requests, last.id)
    /\ requests[last.id].client_id = last.client
    /\ requests[last.id].status \in {"processing", "completed", "failed"}


\* C27: a request that is COMPLETED has an output_path, and every
\* output_path in the table is the path generate_dataset returned for that
\* request, with the data set file written there.
C27_CompletedOnlyByProcessing ==
    \A request_id \in RequestIds :
        Found(requests, request_id) =>
            /\ requests[request_id].status = "completed" =>
                   requests[request_id].output_path.some
            /\ requests[request_id].output_path.some =>
                   /\ requests[request_id].output_path = StoragePath(request_id)
                   /\ datasets[request_id].some


\* C28: when a process_request or process_all_requests call has generated
\* and stored the data set of a request (the request had no output_path
\* before the call and has the stored path after it), the request is
\* COMPLETED when the call ends.
C28_StoredMeansCompleted ==
    [][\A request_id \in RequestIds :
          (/\ last'.op \in {"process_request", "process_all_requests"}
           /\ Found(requests, request_id)
           /\ ~requests[request_id].output_path.some
           /\ requests'[request_id].output_path = StoragePath(request_id)) =>
              requests'[request_id].status = "completed"]_vars


\* C30: the vault and the report archive hold an entry only for the ids of
\* requests that exist: an id the table has no row for (never used, or
\* deleted by delete_request) has no vault text and no report, so that
\* load_original_params and load_report return null for it.
C30_NoEntryWithoutRequest ==
    \A request_id \in RequestIds :
        ~Found(requests, request_id) =>
            (vault[request_id] = None /\ ~reports[request_id].some)


-----------------------------------------------------------------------------
(* Claims about processing a table of several requests, over SpecBatch.    *)

\* C29: a request that process_request or process_all_requests takes up
\* (it is PENDING or FAILED when the call starts) is COMPLETED or FAILED
\* when the call ends, whatever generation and storage do;
\* process_all_requests does so for every such request of the table, also
\* after one of them failed; and no request is PROCESSING after the call
\* that was not PROCESSING before it.
C29_NoRequestLeftProcessing ==
    [][/\ \A request_id \in BatchIds :
              (/\ last'.op = "process_request" /\ last'.id = request_id
               /\ Found(requests, request_id)
               /\ requests[request_id].status \in {"pending", "failed"}) =>
                  requests'[request_id].status \in {"completed", "failed"}
       /\ last'.op = "process_all_requests" =>
              \A request_id \in BatchIds :
                  (/\ Found(requests, request_id)
                   /\ requests[request_id].status \in {"pending", "failed"}) =>
                      requests'[request_id].status \in {"completed", "failed"}
       /\ last'.op \in {"process_request", "process_all_requests"} =>
              \A request_id \in BatchIds :
                  (Found(requests', request_id)
                   /\ requests'[request_id].status = "processing") =>
                      requests[request_id].status = "processing"]_vars

\* process_all_requests has ended: the first request, of an unsupported
\* type, is FAILED and the one after it is COMPLETED with its file written.
C29_Witness ==
    /\ last.op = "process_all_requests"
    /\ requests[1].data_type = UnsupportedDataType
    /\ requests[1].status = "failed"
    /\ requests[2].status = "completed"
    /\ requests[2].output_path = StoragePath(2)
    /\ datasets[2].some


-----------------------------------------------------------------------------
(* Claims about the handlers as the event loop runs them, over SpecLoop.   *)

\* The processing attempt on task.id has reached or passed the given steps.
AttemptAt(pcs) == Processing /\ task.pc \in pcs

C17_ProcessOnlyPendingOrFailed ==
    [][/\ (task'.op = "process_request" /\ task'.pc = "start" /\ task.op = "none") =>
              /\ Found(requests, task'.id)
              /\ requests[task'.id].status \in {"pending", "failed"}
       /\ \A request_id \in RequestIds :
              (/\ Found(requests, request_id)
               /\ requests[request_id].status \in {"processing", "completed"}
               /\ ProcessRequestBegin(request_id)) =>
                  /\ last' = Called("process_request", request_id, 0, 400)
                  /\ task' = NoTask
                  /\ requests' = requests
                  /\ datasets' = datasets
       /\ (Processing /\ requests'[task.id].status = "completed"
                      /\ requests[task.id].status # "completed") =>
              /\ task.pc = "saved"
              /\ task.frame = GenerateFrame(requests[task.id].data_type,
                                            requests[task.id].size).df
              /\ task.df = _apply_privacy_transformations(
                               task.frame, requests[task.id].privacy_level)
              /\ datasets[task.id] = [some |-> TRUE, df |-> task.df]
       /\ (Processing /\ requests'[task.id].status = "failed") =>
              \/ task' = NoTask
              \/ task'.op = "process_all_requests" /\ task'.id > task.id /\ task'.pc = "start"
      ]_vars

\* process_request has just turned down a request that is PROCESSING or
\* COMPLETED and whose data set an earlier attempt built.
C17_Witness ==
    /\ last.op = "process_request"
    /\ last.code = 400
    /\ task = NoTask
    /\ Found(requests, last.id)
    /\ requests[last.id].status \in {"processing", "completed"}
    /\ datasets[last.id].some


-----------------------------------------------------------------------------
(* Claims about _value_similarity (SpecSim). *)

\* One row of the Levenshtein table of a and b, filled left to right from
\* the row above it; position c + 1 holds column c.
RECURSIVE DistanceRow(_, _, _, _, _)
DistanceRow(a, b, i, above, row) ==
    IF Len(row) = Len(b) + 1 THEN row
    ELSE LET j == Len(row)
             cost == IF a[i] = b[j] THEN 0 ELSE 1 IN
         DistanceRow(a, b, i, above,
                     Append(row, Min3(above[j + 1] + 1, row[j] + 1, above[j] + cost)))

RECURSIVE DistanceRows(_, _, _, _)
DistanceRows(a, b, i, above) ==
    IF i > Len(a) THEN above
    ELSE DistanceRows(a, b, i + 1, DistanceRow(a, b, i, above, <<i>>))

\* The Levenshtein distance of a and b: unit-cost insertion, deletion and
\* substitution, by the two-index recurrence over a full table.
Distance(a, b) == DistanceRows(a, b, 1, [c \in 1..(Len(b) + 1) |-> c - 1])[Len(b) + 1]

SimDone == simPc = "done"

\* C21: for two strings the score is 1 - D(a,b)/max(len(a),len(b)) with D
\* the Levenshtein distance; equal strings (two empty ones included) score
\* 1, an empty string against a non-empty one scores 0, and "abc" against
\* "abd" scores 2/3.
C21_NormalizedLevenshtein ==
    (SimDone /\ IsStr(simA) /\ IsStr(simB)) =>
        LET a == simA.s
            b == simB.s
            max_len == Max2(Len(a), Len(b)) IN
        /\ a = b => simOut = One
        /\ (a # b /\ (Len(a) = 0 \/ Len(b) = 0)) => simOut = Zero
        /\ max_len > 0 => simOut = Frac(max_len - Distance(a, b), max_len)
        /\ (a = <<"a", "b", "c">> /\ b = <<"a", "b", "d">>) => simOut = <<2, 3>>

\* The call on "abc" and "abd" has returned 2/3.
C21_Witness ==
    /\ SimDone
    /\ simA = JStr(<<"a", "b", "c">>)
    /\ simB = JStr(<<"a", "b", "d">>)
    /\ simOut = <<2, 3>>


\* The score of one pair of elements: the string rule for two strings,
\* equality for anything else.
PairScore(x, y) ==
    IF IsStr(x) /\ IsStr(y)
    THEN IF Len(x.s) = 0 /\ Len(y.s) = 0 THEN One
         ELSE Frac(Max2(Len(x.s), Len(y.s)) - Distance(x.s, y.s), Max2(Len(x.s), Len(y.s)))
    ELSE IF PyEq(x, y) THEN One ELSE Zero

IsPrefixOf(a, b) == Len(a) <= Len(b) /\ \A i \in 1..Len(a) : a[i] = b[i]

\* C25: for two sequences the score is the mean of the pair scores over the
\* first min(len(a), len(b)) positions, nested sequences and mappings
\* compared by equality only; two empty sequences score 1, an empty one
\* against a non-empty one scores 0, and a non-empty sequence of strings
\* scores 1 against any sequence it is a prefix of.
C25_ListSimilarity ==
    (SimDone /\ IsList(simA) /\ IsList(simB)) =>
        LET a == simA.items
            b == simB.items
            n == IF Len(a) <= Len(b) THEN Len(a) ELSE Len(b) IN
        /\ (Len(a) = 0 /\ Len(b) = 0) => simOut = One
        /\ ((Len(a) = 0) # (Len(b) = 0)) => simOut = Zero
        /\ n > 0 => simOut = FracDiv(FracSum([i \in 1..n |-> PairScore(a[i], b[i])]), n)
        /\ (n > 0 /\ IsListOfStrings(simA) /\ IsPrefixOf(a, b)) => simOut = One

\* ["ab"] against ["ac", 1] has scored 1/2: one position compared, by the
\* string rule, the second element of the longer sequence ignored.
C25_Witness ==
    /\ SimDone
    /\ simA = JList(<<JStr(sAb)>>)
    /\ simB = JList(<<JStr(<<"a", "c">>), JNum(1)>>)
    /\ simOut = <<1, 2>>

====
